---- MODULE Spec2Model ----
(***************************************************************************)
(* A model of the curation pipeline of twitter-watchdog                    *)
(* (src/scripts/twitter_watchdog.py) and of the job layer that runs it     *)
(* (src/backend/app/tasks/runner.py, src/backend/app/api/jobs.py).         *)
(*                                                                         *)
(* The module holds several specifications over one set of variables:      *)
(*   SpecScrape  run_scrape: the dedup ledger, the state file, raw files   *)
(*   SpecBatch   _batch_lines_by_tokens as a function of its input         *)
(*   SpecRobust  _filter_batch_robust / _summarize_batch_robust            *)
(*   SpecAnalyze generate_ai_summary and the end of run_analyze            *)
(*   SpecJob     create_job, execute_job and cancel_job                    *)
(* Variables a specification does not use keep their initial value.        *)
(***************************************************************************)
EXTENDS Integers, Sequences, FiniteSets, TLC

VARIABLES
    \* ---- run_scrape ----
    state_file,       \* seen_tweets as persisted in the state file (hashes)
    seen_tweets,      \* self.state["seen_tweets"] of the running engine
    raw_files,        \* the raw artifacts written so far, oldest first
    all_data,         \* run_scrape's all_data: new followed tweets of this run
    trending_tweets,  \* run_scrape's trending_tweets
    followings,       \* number of accounts get_following returned to this run
    user_i,           \* index of the account the fetch loop is at
    spc,              \* where run_scrape is
    runs,             \* scrape runs started so far
    deduplicate,      \* advanced.deduplicate
    trending_enabled, \* trending_search.enabled
    \* ---- _batch_lines_by_tokens ----
    lines,            \* the input lines, each <<position, length in chars>>
    max_content_tokens,
    batches,          \* the returned batches
    bpc,              \* "input" before the call, "packed" after it
    \* ---- _filter_batch_robust / _summarize_batch_robust ----
    variant,          \* "filter" or "summarize": which of the two functions
    batch,            \* the lines of the outermost call (depth 0)
    stack,            \* the call stack of the recursion, outermost first
    ret,              \* <<the value the last finished call returned>>, or <<>>
    calls,            \* every LLM call made: [lines, depth, ok]
    returns,          \* every finished call: [lines, depth, failed, res]
    \* ---- the LLM endpoint ----
    oracle,           \* [kind, bad]: how the endpoint fails
    transient,        \* failures of a flaky endpoint so far
    relevant,         \* the tweets the model judges AI-related
    urgent_set,       \* the tweets the model judges urgent
    \* ---- generate_ai_summary / run_analyze ----
    apc,              \* where the analysis is
    ai_filter,        \* ai_summary.ai_filter
    api_key,          \* TRUE iff an API key is configured
    max_input_tokens, \* ai_summary.max_input_tokens
    filtered_followings, \* ids of the followed tweets given to the analysis
    filtered_trending,   \* ids of the trending tweets given to the analysis
    bi,               \* index of the batch the pass is at
    ai_tweet_ids,     \* pass 1: union of the relevant ids returned so far
    urgent_ids,       \* pass 1: union of the urgent ids returned so far
    _urgent_ids,      \* <<self._urgent_ids>>, or <<>> while the attribute is unset
    partial_summaries,
    summary,          \* (ai_summary, ai_tweet_ids) as generate_ai_summary returns it
    analysis,         \* <<the analysis artifact>> once written, else <<>>
    batch_log,        \* per batch call of a pass: what the robust call returned
    api_log,          \* the merge and validate calls made: [call, input, ok]
    \* ---- jobs ----
    job_type,         \* per job: "none" before create_job, else its type
    job_status,       \* per job: the status column of its row
    epc,              \* per job: where execute_job is
    stage,            \* per job: engine stages finished
    cancel_pc,        \* per job: where a cancel_job request is
    _cancel_events,   \* the job ids with an entry in _cancel_events
    cancelled_at,     \* per job: <<stage at the cancel commit>>, or <<>>
    \* ---- run_report ----
    rpc,              \* where run_report is
    report,           \* <<the summary of the written report>>, or <<>>
    \* ---- a function called on its own ----
    args,             \* the arguments of the call
    result,           \* <<the value returned>>, or <<>> before the call
    cpc,              \* "input" before the call, "returned" after it
    \* ---- _call_claude_api ----
    attempt,          \* the loop variable
    cur_timeout,
    wire,             \* the requests posted and the sleeps made, in order
    \* ---- run_report, periodic ----
    ppc,              \* where the periodic run_report is
    is_periodic,      \* daily or weekly or monthly
    consolidate_key,  \* TRUE iff _claude_consolidate finds an API key
    consolidate_up,   \* TRUE iff the consolidation request succeeds
    all_summaries,    \* the summaries read from the analysis files
    unique_items,     \* what _deduplicate_items returned
    consolidated,     \* <<text>> _claude_consolidate returned, or <<>> for None
    final_summary,    \* <<final_summary>> once computed, else <<>>
    report_files,     \* the report files written: name -> rendered body
    \* ---- get_following ----
    followings_cache,   \* <<state["followings_cache"]>>, or <<>> for None
    followings_updated, \* <<state["followings_updated"]>>, or <<>> for None
    clock,              \* self.now(), in hours
    cache_hours,        \* advanced.followings_cache_hours
    twitterapi_io_key,  \* TRUE iff a twitterapi.io key is configured
    bearer_token,       \* TRUE iff an X API bearer token is configured
    exclude_users,      \* twitter.exclude_users
    provider_calls,     \* the provider requests of the last call: [provider, ok]
    following,          \* <<what the last get_following returned>>, or <<>>
    gpc,                \* "idle" before a call, "returned" after it
    \* ---- execute_job's log polling task ----
    poll_task,          \* per job: "polling", or "raised" once _poll_log raised
    \* ---- the artifact directories ----
    disk,               \* the files there are: [path, stamp of the writing run]
    lost,               \* files of an earlier second overwritten: [path, old, new]
    stamp,              \* self.now() to the second
    \* ---- _get_followings_twitterapiio ----
    fpc,                \* "paging", "returned" or "raised"
    page,               \* pages requested so far, counted up to MaxPage
    fetch_attempt,      \* attempt of _twitterapiio_get for the current page
    max_followings,     \* advanced.max_followings
    fetched,            \* len(all_followings), counted up to MaxFetched
    \* ---- two scrape runs on one state file ----
    ledger,             \* seen_tweets in the state file
    engine_seen,        \* per run: its self.state["seen_tweets"]
    race_pc,            \* per run: "init", "loaded" or "saved"
    marked              \* per run: the ids it marked seen

scrapeVars == <<state_file, seen_tweets, raw_files, all_data, trending_tweets,
                followings, user_i, spc, runs, deduplicate, trending_enabled>>
batchVars == <<lines, max_content_tokens, batches, bpc>>
robustVars == <<variant, batch, stack, ret, calls, returns>>
llmVars == <<oracle, transient, relevant, urgent_set>>
analyzeVars == <<apc, ai_filter, api_key, max_input_tokens, filtered_followings,
                 filtered_trending, bi, ai_tweet_ids, urgent_ids, _urgent_ids,
                 partial_summaries, summary, analysis, batch_log, api_log>>
jobVars == <<job_type, job_status, epc, stage, cancel_pc, _cancel_events,
             cancelled_at>>
reportVars == <<rpc, report>>
callVars == <<args, result, cpc>>
retryVars == <<attempt, cur_timeout, wire>>
periodVars == <<ppc, is_periodic, consolidate_key, consolidate_up,
                all_summaries, unique_items, consolidated, final_summary,
                report_files>>
cacheVars == <<followings_cache, followings_updated, clock, cache_hours,
               twitterapi_io_key, bearer_token, exclude_users, provider_calls,
               following, gpc>>
pollVars == <<poll_task>>
artifactVars == <<disk, lost, stamp>>
pagingVars == <<fpc, page, fetch_attempt, max_followings, fetched>>
raceVars == <<ledger, engine_seen, race_pc, marked>>
extraVars == <<pollVars, artifactVars, pagingVars, raceVars>>
moreVars == <<periodVars, cacheVars, extraVars>>
restVars == <<reportVars, callVars, retryVars, moreVars>>
notCall == <<scrapeVars, batchVars, robustVars, llmVars, analyzeVars, jobVars,
             reportVars, retryVars, moreVars>>
notRetry == <<scrapeVars, batchVars, robustVars, llmVars, analyzeVars, jobVars,
              reportVars, moreVars>>
notPeriod == <<scrapeVars, batchVars, robustVars, llmVars, analyzeVars, jobVars,
               reportVars, callVars, retryVars, cacheVars, extraVars>>
notCache == <<scrapeVars, batchVars, robustVars, llmVars, analyzeVars, jobVars,
              reportVars, callVars, retryVars, periodVars, extraVars>>
olderVars == <<scrapeVars, batchVars, robustVars, llmVars, analyzeVars,
               reportVars, callVars, retryVars, periodVars, cacheVars>>
notPoll == <<olderVars, artifactVars, pagingVars, raceVars>>
notArtifact == <<olderVars, jobVars, pollVars, pagingVars, raceVars>>
notPaging == <<olderVars, jobVars, pollVars, artifactVars, raceVars>>
notRace == <<olderVars, jobVars, pollVars, artifactVars, pagingVars>>
vars == <<scrapeVars, batchVars, robustVars, llmVars, analyzeVars, jobVars,
          restVars>>

notScrape == <<batchVars, robustVars, llmVars, analyzeVars, jobVars, restVars>>
notBatch == <<scrapeVars, robustVars, llmVars, analyzeVars, jobVars, restVars>>
notRobust == <<scrapeVars, batchVars, analyzeVars, jobVars, restVars>>
notJob == <<scrapeVars, batchVars, robustVars, llmVars, analyzeVars, restVars>>

-----------------------------------------------------------------------------
(* Bounds of the model *)

MaxId == 3
MaxUsers == 2
MaxRuns == 2
MaxBatchLines == 4
MaxCeiling == 4
MaxLines == 21
MaxTransient == 2
MaxFollowed == 12
MaxTrending == 1
MaxJobs == 2
MaxCount == 1
MaxTime == 12
MaxIntake == 2
MaxRetries == 4

-----------------------------------------------------------------------------
(* Helpers on sequences *)

Range(s) == {s[i] : i \in DOMAIN s}

RECURSIVE SetToSeq(_)
SetToSeq(S) ==
    IF S = {} THEN <<>>
    ELSE LET m == CHOOSE x \in S : \A y \in S : x <= y
         IN <<m>> \o SetToSeq(S \ {m})

RECURSIVE Concat(_)
Concat(ss) == IF ss = <<>> THEN <<>> ELSE Head(ss) \o Concat(Tail(ss))

RECURSIVE SumSeq(_)
SumSeq(s) == IF s = <<>> THEN 0 ELSE Head(s) + SumSeq(Tail(s))

-----------------------------------------------------------------------------
(* The dedup ledger *)

Ids == 1..MaxId

get_tweet_hash(tweet_id) == <<"md5", tweet_id>>

is_tweet_seen(seen, tweet_id) == get_tweet_hash(tweet_id) \in seen

mark_tweet_seen(seen, tweet_id) == seen \cup {get_tweet_hash(tweet_id)}

(* The loop over one account's tweets in run_scrape: a tweet already seen  *)
(* is skipped when deduplicate is set; every other tweet is appended to    *)
(* new_tweets and marked seen.  Returns <<new_tweets, seen>>.              *)
RECURSIVE CollectNew(_, _, _)
CollectNew(tweets, seen, new_tweets) ==
    IF tweets = <<>> THEN <<new_tweets, seen>>
    ELSE LET tweet_id == Head(tweets)
         IN IF deduplicate /\ is_tweet_seen(seen, tweet_id)
            THEN CollectNew(Tail(tweets), seen, new_tweets)
            ELSE CollectNew(Tail(tweets), mark_tweet_seen(seen, tweet_id),
                            Append(new_tweets, tweet_id))

load_state == state_file

ScrapeIdle == spc \in {"idle", "done", "crashed"}

(* TwitterWatchdog.__init__ (load_state) and the head of run_scrape:       *)
(* get_following returns some number of accounts.                          *)
StartScrape ==
    /\ ScrapeIdle
    /\ runs < MaxRuns
    /\ runs' = runs + 1
    /\ seen_tweets' = load_state
    /\ \E n \in 0..MaxUsers : followings' = n
    /\ user_i' = 1
    /\ all_data' = <<>>
    /\ trending_tweets' = <<>>
    /\ spc' = "users"
    /\ UNCHANGED <<state_file, raw_files, deduplicate, trending_enabled>>
    /\ UNCHANGED notScrape

(* One iteration of `for i, user in enumerate(followings, 1)`: get_tweets  *)
(* returns a list of tweets, or raises and the account is skipped.         *)
FetchUserOk ==
    /\ spc = "users"
    /\ user_i <= followings
    /\ \E got \in SUBSET Ids :
          LET r == CollectNew(SetToSeq(got), seen_tweets, <<>>)
          IN /\ all_data' = all_data \o r[1]
             /\ seen_tweets' = r[2]
    /\ user_i' = user_i + 1
    /\ UNCHANGED <<state_file, raw_files, trending_tweets, followings, spc,
                   runs, deduplicate, trending_enabled>>
    /\ UNCHANGED notScrape

FetchUserRaises ==
    /\ spc = "users"
    /\ user_i <= followings
    /\ user_i' = user_i + 1
    /\ UNCHANGED <<state_file, seen_tweets, raw_files, all_data,
                   trending_tweets, followings, spc, runs, deduplicate,
                   trending_enabled>>
    /\ UNCHANGED notScrape

(* Step 3 of run_scrape: the trending search.  Its result is filtered      *)
(* against the ids collected from the followed accounts in this run only.  *)
TrendingFilter(found) ==
    LET seen_ids == Range(all_data)
    IN SelectSeq(found, LAMBDA t : t \notin seen_ids)

SearchTrendingOk ==
    /\ spc = "users"
    /\ user_i > followings
    /\ trending_enabled
    /\ \E found \in SUBSET Ids :
          trending_tweets' = TrendingFilter(SetToSeq(found))
    /\ spc' = "save_state"
    /\ UNCHANGED <<state_file, seen_tweets, raw_files, all_data, followings,
                   user_i, runs, deduplicate, trending_enabled>>
    /\ UNCHANGED notScrape

SearchTrendingSkipped ==
    /\ spc = "users"
    /\ user_i > followings
    /\ spc' = "save_state"
    /\ UNCHANGED <<state_file, seen_tweets, raw_files, all_data,
                   trending_tweets, followings, user_i, runs, deduplicate,
                   trending_enabled>>
    /\ UNCHANGED notScrape

save_state ==
    /\ spc = "save_state"
    /\ state_file' = seen_tweets
    /\ spc' = "write_raw"
    /\ UNCHANGED <<seen_tweets, raw_files, all_data, trending_tweets,
                   followings, user_i, runs, deduplicate, trending_enabled>>
    /\ UNCHANGED notScrape

WriteRaw ==
    /\ spc = "write_raw"
    /\ raw_files' = Append(raw_files,
                           [followings |-> all_data, trending |-> trending_tweets])
    /\ spc' = "done"
    /\ UNCHANGED <<state_file, seen_tweets, all_data, trending_tweets,
                   followings, user_i, runs, deduplicate, trending_enabled>>
    /\ UNCHANGED notScrape

(* The run ends without finishing: the process is killed, or an I/O error  *)
(* of save_state, mkdir or the raw file's open/dump escapes run_scrape.    *)
CrashScrape ==
    /\ spc \in {"users", "save_state", "write_raw"}
    /\ spc' = "crashed"
    /\ UNCHANGED <<state_file, seen_tweets, raw_files, all_data,
                   trending_tweets, followings, user_i, runs, deduplicate,
                   trending_enabled>>
    /\ UNCHANGED notScrape

BatchUnused ==
    /\ lines = <<>>
    /\ max_content_tokens = 0
    /\ batches = <<>>
    /\ bpc = "unused"

RobustUnused ==
    /\ variant = "unused"
    /\ batch = <<>>
    /\ stack = <<>>
    /\ ret = <<>>
    /\ calls = {}
    /\ returns = {}

LlmUnused ==
    /\ oracle = [kind |-> "unused", bad |-> {}]
    /\ transient = 0
    /\ relevant = {}
    /\ urgent_set = {}

NoSummary == [text |-> [kind |-> "none", of |-> <<>>], ids |-> <<>>]

AnalyzeUnused ==
    /\ apc = "unused"
    /\ ai_filter = FALSE
    /\ api_key = FALSE
    /\ max_input_tokens = 0
    /\ filtered_followings = <<>>
    /\ filtered_trending = <<>>
    /\ bi = 1
    /\ ai_tweet_ids = {}
    /\ urgent_ids = {}
    /\ _urgent_ids = <<>>
    /\ partial_summaries = <<>>
    /\ summary = NoSummary
    /\ analysis = <<>>
    /\ batch_log = <<>>
    /\ api_log = <<>>

Jobs == 1..MaxJobs

JobUnused ==
    /\ job_type = [j \in Jobs |-> "none"]
    /\ job_status = [j \in Jobs |-> "none"]
    /\ epc = [j \in Jobs |-> "unused"]
    /\ stage = [j \in Jobs |-> 0]
    /\ cancel_pc = [j \in Jobs |-> "idle"]
    /\ _cancel_events = {}
    /\ cancelled_at = [j \in Jobs |-> <<>>]

ReportUnused ==
    /\ rpc = "idle"
    /\ report = <<>>

CallUnused ==
    /\ args = <<>>
    /\ result = <<>>
    /\ cpc = "unused"

RetryUnused ==
    /\ attempt = 0
    /\ cur_timeout = 0
    /\ wire = <<>>

PeriodUnused ==
    /\ ppc = "unused"
    /\ is_periodic = FALSE
    /\ consolidate_key = FALSE
    /\ consolidate_up = FALSE
    /\ all_summaries = <<>>
    /\ unique_items = <<>>
    /\ consolidated = <<>>
    /\ final_summary = <<>>
    /\ report_files = {}

CacheUnused ==
    /\ followings_cache = <<>>
    /\ followings_updated = <<>>
    /\ clock = 0
    /\ cache_hours = 0
    /\ twitterapi_io_key = FALSE
    /\ bearer_token = FALSE
    /\ exclude_users = {}
    /\ provider_calls = <<>>
    /\ following = <<>>
    /\ gpc = "unused"

PollUnused == poll_task = <<>>

ArtifactUnused ==
    /\ disk = {}
    /\ lost = {}
    /\ stamp = 0

PagingUnused ==
    /\ fpc = "unused"
    /\ page = 0
    /\ fetch_attempt = 0
    /\ max_followings = 0
    /\ fetched = 0

RaceUnused ==
    /\ ledger = {}
    /\ engine_seen = <<>>
    /\ race_pc = <<>>
    /\ marked = <<>>

ExtraUnused ==
    /\ PollUnused
    /\ ArtifactUnused
    /\ PagingUnused
    /\ RaceUnused

MoreUnused ==
    /\ PeriodUnused
    /\ CacheUnused
    /\ ExtraUnused


RestUnused ==
    /\ ReportUnused
    /\ CallUnused
    /\ RetryUnused
    /\ MoreUnused

InitScrape ==
    /\ state_file = {}
    /\ seen_tweets = {}
    /\ raw_files = <<>>
    /\ all_data = <<>>
    /\ trending_tweets = <<>>
    /\ followings = 0
    /\ user_i = 1
    /\ spc = "idle"
    /\ runs = 0
    /\ deduplicate \in BOOLEAN
    /\ trending_enabled \in BOOLEAN
    /\ BatchUnused
    /\ RobustUnused
    /\ LlmUnused
    /\ AnalyzeUnused
    /\ JobUnused
    /\ RestUnused

NextScrape ==
    \/ StartScrape
    \/ FetchUserOk
    \/ FetchUserRaises
    \/ SearchTrendingOk
    \/ SearchTrendingSkipped
    \/ save_state
    \/ WriteRaw
    \/ CrashScrape

SpecScrape == InitScrape /\ [][NextScrape]_vars

-----------------------------------------------------------------------------
(* The token batcher.  A line is <<position in the input, length in chars>>; *)
(* only its length enters the estimate.                                      *)

(* Lengths of the lines _build_tweet_lines writes: a tweet line (text cut to *)
(* 200 chars, then "\n  URL: ..."), its two parts when the content is split  *)
(* at "\n", and a section header.                                            *)
TextChars == 200
UrlChars == 50
HeaderChars == 10
TweetChars == TextChars + 1 + UrlChars

LineChars == {0, 3, 5, 8, 13}

(* int(len(text) * 0.4) *)
estimate_tokens(line) == (2 * line[2]) \div 5

BatchTokens(b) == SumSeq([i \in DOMAIN b |-> estimate_tokens(b[i])])

(* `if current_tokens + line_tokens > max_content_tokens and current_batch` *)
FlushAlways(current_tokens, line_tokens, ceiling, current_batch) ==
    current_tokens + line_tokens > ceiling

FlushAtCeiling(current_tokens, line_tokens, ceiling, current_batch) ==
    current_tokens + line_tokens >= ceiling /\ current_batch # <<>>

FlushBefore(current_tokens, line_tokens, ceiling, current_batch) ==
    current_tokens + line_tokens > ceiling /\ current_batch # <<>>

RECURSIVE BatchLoop(_, _, _, _, _)
BatchLoop(rest, ceiling, done, current_batch, current_tokens) ==
    IF rest = <<>>
    THEN IF current_batch # <<>> THEN Append(done, current_batch) ELSE done
    ELSE LET line == Head(rest)
             line_tokens == estimate_tokens(line)
             flush == FlushBefore(current_tokens, line_tokens, ceiling, current_batch)
         IN BatchLoop(Tail(rest), ceiling,
                      IF flush THEN Append(done, current_batch) ELSE done,
                      Append(IF flush THEN <<>> ELSE current_batch, line),
                      (IF flush THEN 0 ELSE current_tokens) + line_tokens)

batch_lines_by_tokens(ls, ceiling) == BatchLoop(ls, ceiling, <<>>, <<>>, 0)

ScrapeUnused ==
    /\ state_file = {}
    /\ seen_tweets = {}
    /\ raw_files = <<>>
    /\ all_data = <<>>
    /\ trending_tweets = <<>>
    /\ followings = 0
    /\ user_i = 1
    /\ spc = "unused"
    /\ runs = 0
    /\ deduplicate = TRUE
    /\ trending_enabled = TRUE

(* every group but the job group and those declared after the cache group *)
OlderUnused ==
    /\ ScrapeUnused
    /\ BatchUnused
    /\ RobustUnused
    /\ LlmUnused
    /\ AnalyzeUnused
    /\ ReportUnused
    /\ CallUnused
    /\ RetryUnused
    /\ PeriodUnused
    /\ CacheUnused

InitBatch ==
    /\ \E n \in 0..MaxBatchLines :
          \E chars \in [1..n -> LineChars] :
              lines = [i \in 1..n |-> <<i, chars[i]>>]
    /\ max_content_tokens \in (0 - 1)..MaxCeiling
    /\ batches = <<>>
    /\ bpc = "input"
    /\ ScrapeUnused
    /\ RobustUnused
    /\ LlmUnused
    /\ AnalyzeUnused
    /\ JobUnused
    /\ RestUnused

Pack ==
    /\ bpc = "input"
    /\ batches' = batch_lines_by_tokens(lines, max_content_tokens)
    /\ bpc' = "packed"
    /\ UNCHANGED <<lines, max_content_tokens>>
    /\ UNCHANGED notBatch

NextBatch == Pack

SpecBatch == InitBatch /\ [][NextBatch]_vars

-----------------------------------------------------------------------------
(* The LLM endpoint, _call_claude_api seen from its callers: a call returns *)
(* a response or raises.  A line of a batch is <<id of the tweet it shows,  *)
(* length in chars>>.                                                       *)
(*   kind "down"    every call raises                                       *)
(*   kind "poison"  a call raises exactly when its batch holds a line of    *)
(*                  oracle.bad (bad = {}: the endpoint never fails)         *)
(*   kind "flaky"   any call may raise, at most MaxTransient times          *)

LineIds(ls) == {ls[i][1] : i \in DOMAIN ls}

CallCanFail(ls) ==
    \/ oracle.kind = "down"
    \/ oracle.kind = "poison" /\ LineIds(ls) \cap oracle.bad # {}
    \/ oracle.kind = "flaky" /\ transient < MaxTransient

CallCanSucceed(ls) ==
    \/ oracle.kind = "flaky"
    \/ oracle.kind = "poison" /\ LineIds(ls) \cap oracle.bad = {}

NoteFailure ==
    transient' = IF oracle.kind = "flaky" THEN transient + 1 ELSE transient

-----------------------------------------------------------------------------
(* _filter_batch_robust and _summarize_batch_robust.  A result is          *)
(* [ids, urgent, summaries, inp, out]: the filter variant returns          *)
(* (ids, urgent, inp, out), the summarize variant (summaries, inp, out).   *)

MinSplitLines == 10

EmptyResult ==
    [ids |-> {}, urgent |-> {}, summaries |-> <<>>, inp |-> 0, out |-> 0]

(* What a successful call returns for the lines ls: the ids of ls the      *)
(* model judges relevant and urgent (filter), or one summary text, which   *)
(* stands for the lines it summarizes (summarize); usage counts the input  *)
(* lines and one unit of output.                                           *)
Response(ls) ==
    IF variant = "filter"
    THEN [ids |-> LineIds(ls) \cap relevant, urgent |-> LineIds(ls) \cap urgent_set,
          summaries |-> <<>>, inp |-> Len(ls), out |-> 1]
    ELSE [ids |-> {}, urgent |-> {}, summaries |-> <<ls>>,
          inp |-> Len(ls), out |-> 1]

(* `return ids1 | ids2, urg1 | urg2, in1 + in2, out1 + out2` and           *)
(* `return s1 + s2, in1 + in2, out1 + out2`                                *)
MergeLeftOnly(r1, r2) == r1

MergeResults(r1, r2) ==
    [ids |-> r1.ids \cup r2.ids, urgent |-> r1.urgent \cup r2.urgent,
     summaries |-> r1.summaries \o r2.summaries,
     inp |-> r1.inp + r2.inp, out |-> r1.out + r2.out]

(* `mid = len(lines) // 2` *)
SplitMid(ls) == Len(ls) \div 2

LeftHalf(ls) == SubSeq(ls, 1, SplitMid(ls))

RightHalfSkipsOne(ls) == SubSeq(ls, SplitMid(ls) + 2, Len(ls))

RightHalf(ls) == SubSeq(ls, SplitMid(ls) + 1, Len(ls))

(* `if len(lines) <= 10` *)
CannotSplitUnder12(ls) == Len(ls) <= MinSplitLines + 2

CannotSplit(ls) == Len(ls) <= MinSplitLines

Frame(ls, depth) == [lines |-> ls, depth |-> depth, st |-> "call", r1 |-> EmptyResult]

Top == stack[Len(stack)]

Popped == SubSeq(stack, 1, Len(stack) - 1)

Returned(f, failed, res) ==
    returns \cup {[lines |-> f.lines, depth |-> f.depth, failed |-> failed, res |-> res]}

Called(f, ok) == calls \cup {[lines |-> f.lines, depth |-> f.depth, ok |-> ok]}

(* The try block: the call succeeds and the function returns its result.  *)
RobustCallOk ==
    /\ stack # <<>>
    /\ Top.st = "call"
    /\ CallCanSucceed(Top.lines)
    /\ calls' = Called(Top, TRUE)
    /\ ret' = <<Response(Top.lines)>>
    /\ returns' = Returned(Top, FALSE, Response(Top.lines))
    /\ stack' = Popped
    /\ UNCHANGED <<variant, batch, llmVars>>
    /\ UNCHANGED notRobust

(* except: too few lines to split, the function returns an empty result.   *)
RobustCallFailLeaf ==
    /\ stack # <<>>
    /\ Top.st = "call"
    /\ CallCanFail(Top.lines)
    /\ CannotSplit(Top.lines)
    /\ NoteFailure
    /\ calls' = Called(Top, FALSE)
    /\ ret' = <<EmptyResult>>
    /\ returns' = Returned(Top, TRUE, EmptyResult)
    /\ stack' = Popped
    /\ UNCHANGED <<variant, batch, oracle, relevant, urgent_set>>
    /\ UNCHANGED notRobust

(* except: the batch is cut at mid and the first half is called.           *)
RobustCallFailSplit ==
    /\ stack # <<>>
    /\ Top.st = "call"
    /\ CallCanFail(Top.lines)
    /\ ~CannotSplit(Top.lines)
    /\ NoteFailure
    /\ calls' = Called(Top, FALSE)
    /\ ret' = <<>>
    /\ stack' = Append([stack EXCEPT ![Len(stack)].st = "left"],
                       Frame(LeftHalf(Top.lines), Top.depth + 1))
    /\ UNCHANGED <<variant, batch, returns, oracle, relevant, urgent_set>>
    /\ UNCHANGED notRobust

(* The first half has returned: the second half is called.                 *)
RobustSecondHalf ==
    /\ stack # <<>>
    /\ Top.st = "left"
    /\ ret # <<>>
    /\ ret' = <<>>
    /\ stack' = Append([stack EXCEPT ![Len(stack)].st = "right",
                                     ![Len(stack)].r1 = ret[1]],
                       Frame(RightHalf(Top.lines), Top.depth + 1))
    /\ UNCHANGED <<variant, batch, calls, returns, llmVars>>
    /\ UNCHANGED notRobust

(* The second half has returned: the merged result is returned.            *)
RobustMerge ==
    /\ stack # <<>>
    /\ Top.st = "right"
    /\ ret # <<>>
    /\ ret' = <<MergeResults(Top.r1, ret[1])>>
    /\ returns' = Returned(Top, TRUE, MergeResults(Top.r1, ret[1]))
    /\ stack' = Popped
    /\ UNCHANGED <<variant, batch, calls, llmVars>>
    /\ UNCHANGED notRobust

RobustStep ==
    \/ RobustCallOk
    \/ RobustCallFailLeaf
    \/ RobustCallFailSplit
    \/ RobustSecondHalf
    \/ RobustMerge

RobustDone == stack = <<>> /\ ret # <<>>

(* The endpoints and the model's judgements a batch of n lines is tried with *)
Oracles(n) ==
    {[kind |-> "down", bad |-> {}], [kind |-> "flaky", bad |-> {}]}
    \cup {[kind |-> "poison", bad |-> {a, b}] : a, b \in 1..n}
    \cup {[kind |-> "poison", bad |-> {}]}

Judgements(n) ==
    {<<{}, {}>>, <<1..n, {1}>>, <<{i \in 1..n : i % 2 = 1}, {n}>>}

InitRobust ==
    /\ \E n \in 1..MaxLines :
          /\ batch = [i \in 1..n |-> <<i, TweetChars>>]
          /\ oracle \in Oracles(n)
          /\ \/ /\ variant = "summarize"
                /\ relevant = {}
                /\ urgent_set = {}
             \/ /\ variant = "filter"
                /\ \E j \in Judgements(n) :
                      /\ relevant = j[1]
                      /\ urgent_set = j[2]
    /\ stack = <<Frame(batch, 0)>>
    /\ ret = <<>>
    /\ calls = {}
    /\ returns = {}
    /\ transient = 0
    /\ ScrapeUnused
    /\ BatchUnused
    /\ AnalyzeUnused
    /\ JobUnused
    /\ RestUnused

NextRobust == RobustStep

(* The recursion is sequential code that runs to its end: a step that can  *)
(* be taken is taken.                                                      *)
SpecRobust == InitRobust /\ [][NextRobust]_vars /\ WF_vars(NextRobust)

-----------------------------------------------------------------------------
(* generate_ai_summary and the end of run_analyze.  The tweets handed to   *)
(* the analysis are those left by the window and keyword filters; at least *)
(* one is left, otherwise run_analyze has returned before this point.      *)

prompt_overhead_filter == 2000
prompt_overhead_summarize == 3000
IdPrefixChars == 10

InputTokenLimits == {3200, 4200, 150000}

FollowHeader == <<0, HeaderChars>>

TrendHeader == <<0 - 1, HeaderChars + 1>>

TweetLine(tid, with_id) ==
    <<tid, IF with_id THEN IdPrefixChars + TweetChars ELSE TweetChars>>

Kept(tweets, ids) == SelectSeq(tweets, LAMBDA t : t \in ids)

build_tweet_lines(fol, tr, with_id) ==
    (IF fol # <<>>
     THEN <<FollowHeader>> \o [i \in DOMAIN fol |-> TweetLine(fol[i], with_id)]
     ELSE <<>>)
    \o (IF tr # <<>>
        THEN <<TrendHeader>> \o [i \in DOMAIN tr |-> TweetLine(tr[i], with_id)]
        ELSE <<>>)

build_filtered_lines(fol, tr, ids) ==
    (IF fol # <<>>
     THEN <<FollowHeader>>
          \o [i \in DOMAIN Kept(fol, ids) |-> TweetLine(Kept(fol, ids)[i], FALSE)]
     ELSE <<>>)
    \o (IF tr # <<>>
        THEN <<TrendHeader>>
             \o [i \in DOMAIN Kept(tr, ids) |-> TweetLine(Kept(tr, ids)[i], FALSE)]
        ELSE <<>>)

(* "\n".join(content_parts).split("\n"): a tweet line holds one "\n" before *)
(* its URL, the trending header starts with one.                           *)
SplitLine(line) ==
    IF line[1] > 0 THEN <<<<line[1], TextChars>>, <<line[1], UrlChars>>>>
    ELSE IF line = TrendHeader THEN <<<<line[1], 0>>, <<line[1], HeaderChars>>>>
    ELSE <<line>>

RECURSIVE content_lines(_)
content_lines(parts) ==
    IF parts = <<>> THEN <<>>
    ELSE SplitLine(Head(parts)) \o content_lines(Tail(parts))

ReturnedIds == IF ai_filter THEN <<ai_tweet_ids>> ELSE <<>>

Text(kind) == [kind |-> kind, of |-> partial_summaries]

(* generate_ai_summary without an API key: (None, None).                   *)
SkipSummary ==
    /\ apc = "start"
    /\ ~api_key
    /\ summary' = NoSummary
    /\ apc' = "write"
    /\ UNCHANGED <<ai_filter, api_key, max_input_tokens, filtered_followings,
                   filtered_trending, bi, ai_tweet_ids, urgent_ids, _urgent_ids,
                   partial_summaries, analysis, batch_log, api_log>>
    /\ UNCHANGED <<scrapeVars, batchVars, robustVars, llmVars, jobVars, restVars>>

(* _filter_and_summarize up to the loop of pass 1.                         *)
StartFilter ==
    /\ apc = "start"
    /\ api_key
    /\ ai_filter
    /\ lines' = build_tweet_lines(filtered_followings, filtered_trending, TRUE)
    /\ max_content_tokens' = max_input_tokens - prompt_overhead_filter
    /\ batches' = batch_lines_by_tokens(lines', max_content_tokens')
    /\ ai_tweet_ids' = {}
    /\ urgent_ids' = {}
    /\ bi' = 1
    /\ apc' = "pass1"
    /\ UNCHANGED <<ai_filter, api_key, max_input_tokens, filtered_followings,
                   filtered_trending, _urgent_ids, partial_summaries, summary,
                   analysis, batch_log, api_log, bpc>>
    /\ UNCHANGED <<scrapeVars, robustVars, llmVars, jobVars, restVars>>

(* _batched_summarize and _batched_summarize_from_lines up to the loop.    *)
StartSummarize ==
    /\ apc = "start"
    /\ api_key
    /\ ~ai_filter
    /\ lines' = content_lines(build_tweet_lines(filtered_followings,
                                                filtered_trending, FALSE))
    /\ max_content_tokens' = max_input_tokens - prompt_overhead_summarize
    /\ batches' = batch_lines_by_tokens(lines', max_content_tokens')
    /\ partial_summaries' = <<>>
    /\ bi' = 1
    /\ apc' = "pass2"
    /\ UNCHANGED <<ai_filter, api_key, max_input_tokens, filtered_followings,
                   filtered_trending, ai_tweet_ids, urgent_ids, _urgent_ids,
                   summary, analysis, batch_log, api_log, bpc>>
    /\ UNCHANGED <<scrapeVars, robustVars, llmVars, jobVars, restVars>>

(* The loop body calls the robust function on the next batch.              *)
PassCall ==
    /\ apc \in {"pass1", "pass2"}
    /\ bi <= Len(batches)
    /\ stack = <<>>
    /\ ret = <<>>
    /\ variant' = IF apc = "pass1" THEN "filter" ELSE "summarize"
    /\ batch' = batches[bi]
    /\ stack' = <<Frame(batches[bi], 0)>>
    /\ calls' = {}
    /\ returns' = {}
    /\ UNCHANGED ret
    /\ UNCHANGED <<scrapeVars, batchVars, llmVars, analyzeVars, jobVars, restVars>>

(* What a batch call did: the pass, the returned result, and whether any   *)
(* LLM call made for the batch was answered.                               *)
BatchEntry ==
    [pass |-> apc, ids |-> ret[1].ids, urgent |-> ret[1].urgent,
     summaries |-> ret[1].summaries, answered |-> \E c \in calls : c.ok]

UpdateReplaces(acc, new) == new

update(acc, new) == acc \cup new

(* Pass 1: the sets the call returned are added to the unions.             *)
Pass1Return ==
    /\ apc = "pass1"
    /\ RobustDone
    /\ ai_tweet_ids' = update(ai_tweet_ids, ret[1].ids)
    /\ urgent_ids' = update(urgent_ids, ret[1].urgent)
    /\ batch_log' = Append(batch_log, BatchEntry)
    /\ bi' = bi + 1
    /\ ret' = <<>>
    /\ UNCHANGED <<apc, ai_filter, api_key, max_input_tokens, filtered_followings,
                   filtered_trending, _urgent_ids, partial_summaries, summary,
                   analysis, api_log>>
    /\ UNCHANGED <<variant, batch, stack, calls, returns>>
    /\ UNCHANGED <<scrapeVars, batchVars, llmVars, jobVars, restVars>>

(* After pass 1: no relevant id at all returns (None, None); otherwise     *)
(* _batched_summarize_from_lines starts on the lines of the relevant ids.  *)
Pass1End ==
    /\ apc = "pass1"
    /\ bi > Len(batches)
    /\ stack = <<>>
    /\ ret = <<>>
    /\ _urgent_ids' = <<urgent_ids>>
    /\ IF ai_tweet_ids = {}
       THEN /\ summary' = NoSummary
            /\ apc' = "write"
            /\ UNCHANGED <<lines, max_content_tokens, batches, bi,
                           partial_summaries>>
       ELSE /\ lines' = build_filtered_lines(filtered_followings,
                                             filtered_trending, ai_tweet_ids)
            /\ max_content_tokens' = max_input_tokens - prompt_overhead_summarize
            /\ batches' = batch_lines_by_tokens(lines', max_content_tokens')
            /\ partial_summaries' = <<>>
            /\ bi' = 1
            /\ apc' = "pass2"
            /\ UNCHANGED summary
    /\ UNCHANGED <<ai_filter, api_key, max_input_tokens, filtered_followings,
                   filtered_trending, ai_tweet_ids, urgent_ids, analysis, batch_log,
                   api_log, bpc>>
    /\ UNCHANGED <<scrapeVars, robustVars, llmVars, jobVars, restVars>>

(* Pass 2: the summaries the call returned extend partial_summaries.       *)
Pass2Return ==
    /\ apc = "pass2"
    /\ RobustDone
    /\ partial_summaries' = partial_summaries \o ret[1].summaries
    /\ batch_log' = Append(batch_log, BatchEntry)
    /\ bi' = bi + 1
    /\ ret' = <<>>
    /\ UNCHANGED <<apc, ai_filter, api_key, max_input_tokens, filtered_followings,
                   filtered_trending, ai_tweet_ids, urgent_ids, _urgent_ids,
                   summary, analysis, api_log>>
    /\ UNCHANGED <<variant, batch, stack, calls, returns>>
    /\ UNCHANGED <<scrapeVars, batchVars, llmVars, jobVars, restVars>>

FinalCallByBatches(partials) == IF Len(batches) = 1 THEN "validate" ELSE "merge"

FinalCall(partials) == IF Len(partials) = 1 THEN "validate" ELSE "merge"

(* After the loop of pass 2: nothing, one summary, or several.             *)
Pass2End ==
    /\ apc = "pass2"
    /\ bi > Len(batches)
    /\ stack = <<>>
    /\ ret = <<>>
    /\ IF partial_summaries = <<>>
       THEN /\ summary' = [text |-> Text("none"), ids |-> ReturnedIds]
            /\ apc' = "write"
       ELSE /\ apc' = FinalCall(partial_summaries)
            /\ UNCHANGED summary
    /\ UNCHANGED <<ai_filter, api_key, max_input_tokens, filtered_followings,
                   filtered_trending, bi, ai_tweet_ids, urgent_ids, _urgent_ids,
                   partial_summaries, analysis, batch_log, api_log>>
    /\ UNCHANGED <<scrapeVars, batchVars, robustVars, llmVars, jobVars, restVars>>

Logged(call, ok) ==
    Append(api_log, [call |-> call, input |-> partial_summaries, ok |-> ok])

(* _validate_summary: the validated text, or the text it was given when    *)
(* the call raises.                                                        *)
ValidateOk ==
    /\ apc = "validate"
    /\ CallCanSucceed(Concat(partial_summaries))
    /\ api_log' = Logged("validate", TRUE)
    /\ summary' = [text |-> Text("validated"), ids |-> ReturnedIds]
    /\ apc' = "write"
    /\ UNCHANGED <<ai_filter, api_key, max_input_tokens, filtered_followings,
                   filtered_trending, bi, ai_tweet_ids, urgent_ids, _urgent_ids,
                   partial_summaries, analysis, batch_log>>
    /\ UNCHANGED <<scrapeVars, batchVars, robustVars, llmVars, jobVars, restVars>>

ValidateFails ==
    /\ apc = "validate"
    /\ CallCanFail(Concat(partial_summaries))
    /\ NoteFailure
    /\ api_log' = Logged("validate", FALSE)
    /\ summary' = [text |-> Text("raw"), ids |-> ReturnedIds]
    /\ apc' = "write"
    /\ UNCHANGED <<ai_filter, api_key, max_input_tokens, filtered_followings,
                   filtered_trending, bi, ai_tweet_ids, urgent_ids, _urgent_ids,
                   partial_summaries, analysis, batch_log>>
    /\ UNCHANGED <<oracle, relevant, urgent_set>>
    /\ UNCHANGED <<scrapeVars, batchVars, robustVars, jobVars, restVars>>

(* The merge call of _batched_summarize_from_lines.                        *)
MergeOk ==
    /\ apc = "merge"
    /\ CallCanSucceed(Concat(partial_summaries))
    /\ api_log' = Logged("merge", TRUE)
    /\ summary' = [text |-> Text("merged"), ids |-> ReturnedIds]
    /\ apc' = "write"
    /\ UNCHANGED <<ai_filter, api_key, max_input_tokens, filtered_followings,
                   filtered_trending, bi, ai_tweet_ids, urgent_ids, _urgent_ids,
                   partial_summaries, analysis, batch_log>>
    /\ UNCHANGED <<scrapeVars, batchVars, robustVars, llmVars, jobVars, restVars>>

(* The merge call is outside any try: its exception leaves                 *)
(* _batched_summarize_from_lines, generate_ai_summary and run_analyze.     *)
MergeRaises ==
    /\ apc = "merge"
    /\ CallCanFail(Concat(partial_summaries))
    /\ NoteFailure
    /\ api_log' = Logged("merge", FALSE)
    /\ apc' = "raised"
    /\ UNCHANGED <<ai_filter, api_key, max_input_tokens, filtered_followings,
                   filtered_trending, bi, ai_tweet_ids, urgent_ids, _urgent_ids,
                   partial_summaries, summary, analysis, batch_log>>
    /\ UNCHANGED <<oracle, relevant, urgent_set>>
    /\ UNCHANGED <<scrapeVars, batchVars, robustVars, jobVars, restVars>>

(* run_analyze after generate_ai_summary: the tweets are cut down to the   *)
(* returned ids when there are any, and the analysis artifact is written.  *)
WriteAnalysis ==
    /\ apc = "write"
    /\ analysis' =
          <<[ai_tweet_ids |-> IF summary.ids # <<>> THEN summary.ids[1] ELSE {},
             urgent_ids |-> IF _urgent_ids # <<>> THEN _urgent_ids[1] ELSE {},
             summary |-> summary.text,
             filtered_followings |->
                 IF summary.ids # <<>>
                 THEN Kept(filtered_followings, summary.ids[1])
                 ELSE filtered_followings,
             filtered_trending |->
                 IF summary.ids # <<>>
                 THEN Kept(filtered_trending, summary.ids[1])
                 ELSE filtered_trending]>>
    /\ apc' = "done"
    /\ UNCHANGED <<ai_filter, api_key, max_input_tokens, filtered_followings,
                   filtered_trending, bi, ai_tweet_ids, urgent_ids, _urgent_ids,
                   partial_summaries, summary, batch_log, api_log>>
    /\ UNCHANGED <<scrapeVars, batchVars, robustVars, llmVars, jobVars, restVars>>

(* run_report on the analysis artifact just written (run_pipeline passes it *)
(* as source): an artifact without a summary ends run_report before any    *)
(* report file is written.                                                 *)
RunReportNoSummary ==
    /\ apc = "done"
    /\ rpc = "idle"
    /\ analysis[1].summary.kind = "none"
    /\ rpc' = "returned"
    /\ UNCHANGED report
    /\ UNCHANGED <<scrapeVars, batchVars, robustVars, llmVars, analyzeVars, jobVars,
                   callVars, retryVars, moreVars>>

(* A single analysis, not periodic: its summary is the report's summary.   *)
RunReportSingle ==
    /\ apc = "done"
    /\ rpc = "idle"
    /\ analysis[1].summary.kind # "none"
    /\ report' = <<analysis[1].summary>>
    /\ rpc' = "written"
    /\ UNCHANGED <<scrapeVars, batchVars, robustVars, llmVars, analyzeVars, jobVars,
                   callVars, retryVars, moreVars>>

AnalyzeOracles(n) ==
    {[kind |-> "down", bad |-> {}], [kind |-> "flaky", bad |-> {}],
     [kind |-> "poison", bad |-> {}]}
    \cup {[kind |-> "poison", bad |-> {a}] : a \in 1..n}

InitAnalyze ==
    /\ apc = "start"
    /\ ai_filter \in BOOLEAN
    /\ api_key \in BOOLEAN
    /\ max_input_tokens \in InputTokenLimits
    /\ \E nf \in 0..MaxFollowed, nt \in 0..MaxTrending :
          /\ nf + nt > 0
          /\ filtered_followings = [i \in 1..nf |-> i]
          /\ filtered_trending = [i \in 1..nt |-> nf + i]
          /\ IF api_key
             THEN /\ oracle \in AnalyzeOracles(nf + nt)
                  /\ IF ai_filter
                     THEN \E j \in Judgements(nf + nt) :
                              relevant = j[1] /\ urgent_set = j[2]
                     ELSE relevant = {} /\ urgent_set = {}
             ELSE /\ oracle = [kind |-> "unused", bad |-> {}]
                  /\ relevant = {}
                  /\ urgent_set = {}
    /\ transient = 0
    /\ bi = 1
    /\ ai_tweet_ids = {}
    /\ urgent_ids = {}
    /\ _urgent_ids = <<>>
    /\ partial_summaries = <<>>
    /\ summary = NoSummary
    /\ analysis = <<>>
    /\ batch_log = <<>>
    /\ api_log = <<>>
    /\ ScrapeUnused
    /\ BatchUnused
    /\ RobustUnused
    /\ JobUnused
    /\ RestUnused

NextAnalyze ==
    \/ SkipSummary
    \/ StartFilter
    \/ StartSummarize
    \/ PassCall
    \/ RobustStep
    \/ Pass1Return
    \/ Pass1End
    \/ Pass2Return
    \/ Pass2End
    \/ ValidateOk
    \/ ValidateFails
    \/ MergeOk
    \/ MergeRaises
    \/ WriteAnalysis
    \/ RunReportNoSummary
    \/ RunReportSingle

SpecAnalyze == InitAnalyze /\ [][NextAnalyze]_vars


-----------------------------------------------------------------------------
(* The job layer: create_job schedules execute_job as a task of the event  *)
(* loop; cancel_job is a request handler of the same loop.  Every await is *)
(* a point where the other coroutines run.                                 *)

VALID_JOB_TYPES == {"scrape", "analyze", "report", "pipeline"}

(* The engine stages of a job: run_pipeline runs run_scrape, run_analyze,  *)
(* run_report and push_summary; the other types run one.                   *)
Stages(type) == IF type = "pipeline" THEN 4 ELSE 1

(* create_job: the row is committed as pending and execute_job scheduled.  *)
create_job(j, type) ==
    /\ job_type[j] = "none"
    /\ \A i \in Jobs : i < j => job_type[i] # "none"
    /\ job_type' = [job_type EXCEPT ![j] = type]
    /\ job_status' = [job_status EXCEPT ![j] = "pending"]
    /\ epc' = [epc EXCEPT ![j] = "created"]
    /\ UNCHANGED <<stage, cancel_pc, _cancel_events, cancelled_at>>
    /\ UNCHANGED notJob

(* execute_job: _update_job(status="running").                             *)
MarkRunning(j) ==
    /\ epc[j] = "created"
    /\ job_status' = [job_status EXCEPT ![j] = "running"]
    /\ epc' = [epc EXCEPT ![j] = "engine"]
    /\ UNCHANGED <<job_type, stage, cancel_pc, _cancel_events, cancelled_at>>
    /\ UNCHANGED notJob

(* The engine, in its thread, finishes its next stage.                     *)
EngineStage(j) ==
    /\ epc[j] = "engine"
    /\ stage[j] < Stages(job_type[j])
    /\ stage' = [stage EXCEPT ![j] = stage[j] + 1]
    /\ UNCHANGED <<job_type, job_status, epc, cancel_pc, _cancel_events,
                   cancelled_at>>
    /\ UNCHANGED notJob

(* The engine returns: after its last stage, or from run_pipeline when     *)
(* run_scrape or run_analyze produced nothing.                             *)
EngineReturns(j) ==
    /\ epc[j] = "engine"
    /\ \/ stage[j] = Stages(job_type[j])
       \/ job_type[j] = "pipeline" /\ stage[j] \in {1, 2}
    /\ epc' = [epc EXCEPT ![j] = "returned"]
    /\ UNCHANGED <<job_type, job_status, stage, cancel_pc, _cancel_events,
                   cancelled_at>>
    /\ UNCHANGED notJob

(* A stage raises.                                                         *)
EngineRaises(j) ==
    /\ epc[j] = "engine"
    /\ stage[j] < Stages(job_type[j])
    /\ epc' = [epc EXCEPT ![j] = "except"]
    /\ UNCHANGED <<job_type, job_status, stage, cancel_pc, _cancel_events,
                   cancelled_at>>
    /\ UNCHANGED notJob

(* execute_job: the final _update_job, completed or failed.                *)
FinalUpdate(j) ==
    /\ epc[j] \in {"returned", "except"}
    /\ job_status' = [job_status EXCEPT
                        ![j] = IF epc[j] = "returned" THEN "completed" ELSE "failed"]
    /\ epc' = [epc EXCEPT ![j] = "done"]
    /\ UNCHANGED <<job_type, stage, cancel_pc, _cancel_events, cancelled_at>>
    /\ UNCHANGED notJob

(* cancel_job up to its commit: the row is read, a job that is neither     *)
(* pending nor running is refused, the job's cancel event, if there is     *)
(* one, is set.  No code adds an entry to _cancel_events.                  *)
CancelRead(j) ==
    /\ cancel_pc[j] = "idle"
    /\ job_status[j] \in {"pending", "running"}
    /\ cancel_pc' = [cancel_pc EXCEPT ![j] = "commit"]
    /\ UNCHANGED <<job_type, job_status, epc, stage, _cancel_events, cancelled_at>>
    /\ UNCHANGED notJob

(* cancel_job: status "cancelled" is committed.                            *)
CancelCommit(j) ==
    /\ cancel_pc[j] = "commit"
    /\ job_status' = [job_status EXCEPT ![j] = "cancelled"]
    /\ cancelled_at' = [cancelled_at EXCEPT
                          ![j] = IF cancelled_at[j] = <<>> THEN <<stage[j]>>
                                 ELSE cancelled_at[j]]
    /\ cancel_pc' = [cancel_pc EXCEPT ![j] = "idle"]
    /\ UNCHANGED <<job_type, epc, stage, _cancel_events>>
    /\ UNCHANGED notJob

InitJob ==
    /\ job_type = [j \in Jobs |-> "none"]
    /\ job_status = [j \in Jobs |-> "none"]
    /\ epc = [j \in Jobs |-> "none"]
    /\ stage = [j \in Jobs |-> 0]
    /\ cancel_pc = [j \in Jobs |-> "idle"]
    /\ _cancel_events = {}
    /\ cancelled_at = [j \in Jobs |-> <<>>]
    /\ ScrapeUnused
    /\ BatchUnused
    /\ RobustUnused
    /\ LlmUnused
    /\ AnalyzeUnused
    /\ RestUnused

NextJob ==
    \E j \in Jobs :
        \/ \E type \in VALID_JOB_TYPES : create_job(j, type)
        \/ MarkRunning(j)
        \/ EngineStage(j)
        \/ EngineReturns(j)
        \/ EngineRaises(j)
        \/ FinalUpdate(j)
        \/ CancelRead(j)
        \/ CancelCommit(j)

(* The event loop runs every scheduled coroutine, and the engine thread    *)
(* runs to its end.                                                        *)
SpecJob == InitJob /\ [][NextJob]_vars /\ WF_vars(NextJob)

-----------------------------------------------------------------------------
(* execute_job with its log-polling task.  poll_task[j] is "none" before   *)
(* asyncio.create_task, "polling" while _poll_log loops, "finished" when   *)
(* the loop ended and "raised" when an _update_job of the loop raised.     *)
(* epc[j] = "crashed": execute_job ended with an exception of its own.     *)

InitJobPoll ==
    /\ job_type = [j \in Jobs |-> "none"]
    /\ job_status = [j \in Jobs |-> "none"]
    /\ epc = [j \in Jobs |-> "none"]
    /\ stage = [j \in Jobs |-> 0]
    /\ cancel_pc = [j \in Jobs |-> "idle"]
    /\ _cancel_events = {}
    /\ cancelled_at = [j \in Jobs |-> <<>>]
    /\ poll_task = [j \in Jobs |-> "none"]
    /\ OlderUnused
    /\ ArtifactUnused
    /\ PagingUnused
    /\ RaceUnused

(* _update_job(status="running"), then asyncio.create_task(_poll_log(...)) *)
StartPolling(j) ==
    /\ epc[j] = "created"
    /\ job_status' = [job_status EXCEPT ![j] = "running"]
    /\ epc' = [epc EXCEPT ![j] = "engine"]
    /\ poll_task' = [poll_task EXCEPT ![j] = "polling"]
    /\ UNCHANGED <<job_type, stage, cancel_pc, _cancel_events, cancelled_at>>
    /\ UNCHANGED notPoll

(* _poll_log: an _update_job(log=text) of the loop raises; the task ends   *)
(* with that exception.  The loop makes one more pass after stop_event is  *)
(* set during its sleep.                                                   *)
PollRaises(j) ==
    /\ poll_task[j] = "polling"
    /\ epc[j] \in {"engine", "returned", "except"}
    /\ poll_task' = [poll_task EXCEPT ![j] = "raised"]
    /\ UNCHANGED jobVars
    /\ UNCHANGED notPoll

(* _poll_log: stop_event is set, the loop ends.                            *)
PollStops(j) ==
    /\ poll_task[j] = "polling"
    /\ epc[j] \in {"returned", "except"}
    /\ poll_task' = [poll_task EXCEPT ![j] = "finished"]
    /\ UNCHANGED jobVars
    /\ UNCHANGED notPoll

(* await poll_task returns, and the final _update_job is made.             *)
AwaitThenFinalUpdate(j) ==
    /\ poll_task[j] = "finished"
    /\ FinalUpdate(j)

(* await poll_task in the try block raises the exception of the task: the  *)
(* except branch is entered.                                               *)
AwaitRaisesInTry(j) ==
    /\ poll_task[j] = "raised"
    /\ epc[j] = "returned"
    /\ epc' = [epc EXCEPT ![j] = "except"]
    /\ UNCHANGED <<job_type, job_status, stage, cancel_pc, _cancel_events,
                   cancelled_at>>
    /\ UNCHANGED poll_task
    /\ UNCHANGED notPoll

(* await poll_task in the except branch raises it again: execute_job ends  *)
(* with it, before the _update_job(status="failed").                       *)
AwaitRaisesInExcept(j) ==
    /\ poll_task[j] = "raised"
    /\ epc[j] = "except"
    /\ epc' = [epc EXCEPT ![j] = "crashed"]
    /\ UNCHANGED <<job_type, job_status, stage, cancel_pc, _cancel_events,
                   cancelled_at>>
    /\ UNCHANGED poll_task
    /\ UNCHANGED notPoll

NextJobPoll ==
    \E j \in Jobs :
        \/ \E type \in VALID_JOB_TYPES : create_job(j, type)
        \/ StartPolling(j)
        \/ EngineStage(j)
        \/ EngineReturns(j)
        \/ EngineRaises(j)
        \/ PollRaises(j)
        \/ PollStops(j)
        \/ AwaitThenFinalUpdate(j)
        \/ AwaitRaisesInTry(j)
        \/ AwaitRaisesInExcept(j)

(* The event loop runs every scheduled coroutine, and the engine thread    *)
(* runs to its end.                                                        *)
SpecJobPoll == InitJobPoll /\ [][NextJobPoll]_vars /\ WF_vars(NextJobPoll)

-----------------------------------------------------------------------------
(* filter_tweet.  A string is a sequence of characters; a tweet is a       *)
(* record of the fields the filters read.                                  *)

Chars == {"a", "A", "b", "B"}

LowerChar(c) == IF c = "A" THEN "a" ELSE IF c = "B" THEN "b" ELSE c

KeepCase(str) == str

lower(str) == [i \in DOMAIN str |-> LowerChar(str[i])]

(* kw in text *)
Contains(kw, text) ==
    \E i \in 0..(Len(text) - Len(kw)) : SubSeq(text, i + 1, i + Len(kw)) = kw

filter_tweet(tweet, fc, aif) ==
    IF ~fc.enabled THEN <<TRUE, "no_filters">>
    ELSE IF fc.language # "all" /\ tweet.lang # fc.language
         THEN <<FALSE, "language_filter">>
    ELSE IF tweet.likeCount < fc.min_likes THEN <<FALSE, "engagement_filter">>
    ELSE IF tweet.retweetCount < fc.min_retweets THEN <<FALSE, "engagement_filter">>
    ELSE IF aif THEN <<TRUE, "ai_filter_mode">>
    ELSE IF \E k \in DOMAIN fc.exclude :
                Contains(lower(fc.exclude[k]), lower(tweet.text))
         THEN <<FALSE, "excluded_keyword">>
    ELSE IF /\ fc.include # <<>>
            /\ ~ \E k \in DOMAIN fc.include :
                     Contains(lower(fc.include[k]), lower(tweet.text))
         THEN <<FALSE, "no_include_keyword">>
    ELSE <<TRUE, "passed">>

Texts == {<<>>, <<"a", "B">>, <<"A">>, <<"b", "b", "A">>}

Keywords == {<<"A">>, <<"a", "b">>, <<"B">>}

Langs == {"en", "zh", "None"}

FilterConfigs ==
    [enabled : BOOLEAN, language : {"all", "en"}, min_likes : 0..MaxCount,
     min_retweets : 0..MaxCount,
     exclude : {<<>>} \cup {<<k>> : k \in Keywords},
     include : {<<>>} \cup {<<k>> : k \in Keywords}]

InitFilterTweet ==
    /\ args \in [tweet : [lang : Langs, likeCount : 0..MaxCount,
                          retweetCount : 0..MaxCount, text : Texts],
                 filters_config : FilterConfigs,
                 ai_filter : BOOLEAN]
    /\ result = <<>>
    /\ cpc = "input"
    /\ ScrapeUnused
    /\ BatchUnused
    /\ RobustUnused
    /\ LlmUnused
    /\ AnalyzeUnused
    /\ JobUnused
    /\ ReportUnused
    /\ MoreUnused
    /\ RetryUnused

CallFilterTweet ==
    /\ cpc = "input"
    /\ result' = <<filter_tweet(args.tweet, args.filters_config, args.ai_filter)>>
    /\ cpc' = "returned"
    /\ UNCHANGED args
    /\ UNCHANGED notCall

NextFilterTweet == CallFilterTweet

SpecFilterTweet == InitFilterTweet /\ [][NextFilterTweet]_vars

-----------------------------------------------------------------------------
(* The time window.  Time is counted in hours; None is <<>> and a value v   *)
(* that may be None is <<v>>.  A createdAt string is [fmt, t]: what it is  *)
(* written as and the instant it names.                                    *)

Formats == {"twitter", "iso", "empty", "garbage"}

Times == 0..MaxTime

CreatedAts == [fmt : Formats, t : Times]

parse_tweet_time(created_at) ==
    IF created_at.fmt = "empty" THEN <<>>
    ELSE IF created_at.fmt \in {"twitter", "iso"} THEN <<created_at.t>>
    ELSE <<>>

is_tweet_in_window(tweet, hours_ago, now) ==
    IF hours_ago = <<>> THEN TRUE
    ELSE LET created == parse_tweet_time(tweet.createdAt)
         IN IF created = <<>> THEN TRUE
            ELSE created[1] >= now - hours_ago[1]

(* Python truth of self.hours_ago: None and 0 are false.                   *)
Truthy(hours_ago) == hours_ago # <<>> /\ hours_ago[1] # 0

(* run_analyze: <<window_from, window_to>>                                 *)
analyze_window(hours_ago, time_from, time_to, now) ==
    IF Truthy(hours_ago) /\ time_from = <<>> /\ time_to = <<>>
    THEN <<<<now - hours_ago[1]>>, <<now>>>>
    ELSE <<time_from, time_to>>

NoUpperBound(created, window) == FALSE

TooLate(created, window) == window[2] # <<>> /\ created[1] > window[2][1]

(* run_analyze: the tweet is appended to window_tweets.                    *)
window_keeps(tweet, window) ==
    IF window[1] # <<>> \/ window[2] # <<>>
    THEN LET created == parse_tweet_time(tweet.createdAt)
         IN IF created # <<>>
            THEN /\ ~(window[1] # <<>> /\ created[1] < window[1][1])
                 /\ ~TooLate(created, window)
            ELSE TRUE
    ELSE TRUE

Lookbacks == {<<>>} \cup {<<h>> : h \in 0..MaxTime}

Bounds == {<<>>} \cup {<<t>> : t \in {2, MaxTime - 2}}

InitWindow ==
    /\ args \in [fn : {"is_tweet_in_window", "run_analyze"},
                 tweet : [createdAt : CreatedAts],
                 hours_ago : Lookbacks,
                 time_from : Bounds,
                 time_to : Bounds,
                 now : {MaxTime - 2}]
    /\ args.fn = "is_tweet_in_window" => args.time_from = <<>> /\ args.time_to = <<>>
    /\ result = <<>>
    /\ cpc = "input"
    /\ ScrapeUnused
    /\ BatchUnused
    /\ RobustUnused
    /\ LlmUnused
    /\ AnalyzeUnused
    /\ JobUnused
    /\ ReportUnused
    /\ MoreUnused
    /\ RetryUnused

CallIsTweetInWindow ==
    /\ cpc = "input"
    /\ args.fn = "is_tweet_in_window"
    /\ result' = <<is_tweet_in_window(args.tweet, args.hours_ago, args.now)>>
    /\ cpc' = "returned"
    /\ UNCHANGED args
    /\ UNCHANGED notCall

(* The window test run_analyze makes on one tweet.                         *)
CallWindowKeeps ==
    /\ cpc = "input"
    /\ args.fn = "run_analyze"
    /\ result' = <<window_keeps(args.tweet,
                                analyze_window(args.hours_ago, args.time_from,
                                               args.time_to, args.now))>>
    /\ cpc' = "returned"
    /\ UNCHANGED args
    /\ UNCHANGED notCall

NextWindow ==
    \/ CallIsTweetInWindow
    \/ CallWindowKeeps

SpecWindow == InitWindow /\ [][NextWindow]_vars

-----------------------------------------------------------------------------
(* run_analyze from the raw files to generate_ai_summary: the raw files    *)
(* are merged, the followed and the trending tweets go through the window  *)
(* test and, unless ai_filter is set, through filter_tweet.  The analysis  *)
(* then continues as in SpecAnalyze.                                       *)

TweetIdsOf(tweets) == [i \in DOMAIN tweets |-> tweets[i].id]

passes_window(tweets, window) ==
    SelectSeq(tweets, LAMBDA t : window_keeps(t, window))

passes_filter(tweets, fc, aif) ==
    IF ~aif THEN SelectSeq(tweets, LAMBDA t : filter_tweet(t, fc, aif)[1])
    ELSE tweets

total_filtered(a) == Len(a.filtered_followings) + Len(a.filtered_trending)

Prefilter ==
    /\ apc = "raw"
    /\ LET window == analyze_window(args.hours_ago, args.time_from,
                                    args.time_to, args.now)
           ff == passes_filter(passes_window(args.all_followings, window),
                               args.filters_config, ai_filter)
           ft == passes_filter(passes_window(args.all_trending, window),
                               args.filters_config, ai_filter)
       IN /\ filtered_followings' = TweetIdsOf(ff)
          /\ filtered_trending' = TweetIdsOf(ft)
          /\ apc' = IF ff = <<>> /\ ft = <<>> THEN "skipped" ELSE "start"
    /\ UNCHANGED <<ai_filter, api_key, max_input_tokens, bi, ai_tweet_ids,
                   urgent_ids, _urgent_ids, partial_summaries, summary, analysis,
                   batch_log, api_log>>
    /\ UNCHANGED <<scrapeVars, batchVars, robustVars, llmVars, jobVars, restVars>>

(* The tweets of the raw files: the same id is the same tweet wherever it  *)
(* appears.                                                                *)
IntakeKinds ==
    {[createdAt |-> [fmt |-> "twitter", t |-> MaxTime - 3], text |-> <<"a">>],
     [createdAt |-> [fmt |-> "twitter", t |-> MaxTime - 3], text |-> <<"b">>],
     [createdAt |-> [fmt |-> "twitter", t |-> 0], text |-> <<"a">>],
     [createdAt |-> [fmt |-> "garbage", t |-> 0], text |-> <<"a">>]}

IntakeTweet(id, kind) ==
    [id |-> id, createdAt |-> kind.createdAt, lang |-> "en", likeCount |-> 1,
     retweetCount |-> 1, text |-> kind.text]

IntakeConfigs ==
    {fc \in FilterConfigs :
        /\ fc.language = "all"
        /\ fc.min_likes = 0
        /\ fc.min_retweets = 0
        /\ fc.exclude = <<>>
        /\ fc.include = <<<<"A">>>>}

IntakeLookbacks == {<<>>, <<MaxTime - 4>>}

InitIntake ==
    /\ apc = "raw"
    /\ \E nf \in 0..MaxIntake, nt \in 0..MaxIntake, first \in 1..(MaxIntake + 1),
          kind \in [1..(MaxIntake + 1) -> IntakeKinds],
          h \in IntakeLookbacks, fc \in IntakeConfigs :
          /\ first \in {nf, nf + 1}
          /\ first + nt - 1 <= MaxIntake + 1
          /\ \A i \in 1..(MaxIntake + 1) :
                (i > nf /\ (i < first \/ i > first + nt - 1))
                    => kind[i] = CHOOSE k \in IntakeKinds : TRUE
          /\ args = [all_followings |-> [i \in 1..nf |-> IntakeTweet(i, kind[i])],
                     all_trending |->
                         [i \in 1..nt |-> IntakeTweet(first + i - 1,
                                                      kind[first + i - 1])],
                     hours_ago |-> h,
                     time_from |-> <<>>,
                     time_to |-> <<>>,
                     now |-> MaxTime - 2,
                     filters_config |-> fc]
    /\ ai_filter \in BOOLEAN
    /\ api_key \in BOOLEAN
    /\ max_input_tokens \in InputTokenLimits
    /\ filtered_followings = <<>>
    /\ filtered_trending = <<>>
    /\ bi = 1
    /\ ai_tweet_ids = {}
    /\ urgent_ids = {}
    /\ _urgent_ids = <<>>
    /\ partial_summaries = <<>>
    /\ summary = NoSummary
    /\ analysis = <<>>
    /\ batch_log = <<>>
    /\ api_log = <<>>
    /\ result = <<>>
    /\ cpc = "unused"
    /\ ReportUnused
    /\ MoreUnused
    /\ RetryUnused
    /\ ScrapeUnused
    /\ BatchUnused
    /\ RobustUnused
    /\ LlmUnused
    /\ JobUnused

(* The intake ends where the first pass over the batches starts, or, with  *)
(* no API key, with the analysis artifact.                                 *)
NextIntake ==
    \/ Prefilter
    \/ SkipSummary
    \/ StartFilter
    \/ StartSummarize
    \/ WriteAnalysis

SpecIntake == InitIntake /\ [][NextIntake]_vars

-----------------------------------------------------------------------------
(* _call_claude_api: one call, its requests and its sleeps.  Whatever goes *)
(* wrong with a request (timeout, HTTP status, body that is not the        *)
(* expected JSON) is an exception caught by the same except clause.        *)

DefaultTimeout == 120
DefaultRetries == 3

Failures == {"Timeout", "HTTPError", "JSONDecodeError", "KeyError"}

WaitFlat(n) == 10

wait(n) == 10 * n

(* int(cur_timeout * 1.5) *)
escalated(timeout) == (3 * timeout) \div 2

Posted(outcome) ==
    Append(wire, [event |-> "post", attempt |-> attempt, timeout |-> cur_timeout,
                  outcome |-> outcome])

InitRetry ==
    /\ args \in [timeout : {DefaultTimeout},
                 max_retries : {DefaultRetries} \cup 1..MaxRetries]
    /\ attempt = 1
    /\ cur_timeout = args.timeout
    /\ wire = <<>>
    /\ result = <<>>
    /\ cpc = "post"
    /\ ScrapeUnused
    /\ BatchUnused
    /\ RobustUnused
    /\ LlmUnused
    /\ AnalyzeUnused
    /\ JobUnused
    /\ ReportUnused
    /\ MoreUnused

(* The request succeeds: its text and usage are returned.                  *)
PostOk ==
    /\ cpc = "post"
    /\ wire' = Posted("ok")
    /\ result' = <<[text |-> attempt]>>
    /\ cpc' = "returned"
    /\ UNCHANGED <<args, attempt, cur_timeout>>
    /\ UNCHANGED notRetry

(* The request fails and attempts are left: sleep, longer timeout, again.  *)
PostFailsRetry ==
    /\ cpc = "post"
    /\ attempt < args.max_retries
    /\ \E e \in Failures :
          wire' = Append(Posted(e), [event |-> "sleep", attempt |-> attempt,
                                     timeout |-> escalated(cur_timeout),
                                     outcome |-> wait(attempt)])
    /\ cur_timeout' = escalated(cur_timeout)
    /\ attempt' = attempt + 1
    /\ UNCHANGED <<args, result, cpc>>
    /\ UNCHANGED notRetry

(* The last request fails: the exception is raised again.                  *)
PostFailsRaise ==
    /\ cpc = "post"
    /\ ~(attempt < args.max_retries)
    /\ \E e \in Failures : wire' = Posted(e)
    /\ cpc' = "raised"
    /\ UNCHANGED <<args, result, attempt, cur_timeout>>
    /\ UNCHANGED notRetry

NextRetry ==
    \/ PostOk
    \/ PostFailsRetry
    \/ PostFailsRaise

SpecRetry == InitRetry /\ [][NextRetry]_vars

-----------------------------------------------------------------------------
(* Summary text.  A text is modelled by its lines; a line by what the code *)
(* tests of it: k is                                                       *)
(*   "header"   the line starts with "## ", title is the rest, stripped    *)
(*   "entry"    stripped, it matches - [title](url)<sep>description; n is  *)
(*              the length of the description                              *)
(*   "dash"     stripped, it starts with "- [" and does not match          *)
(*   "bullet"   stripped, it starts with "- " and not with "- ["           *)
(*   "image"    stripped, it starts with "!["                              *)
(*   "blank"    stripped, it is empty                                      *)
(*   "text"     anything else                                              *)
(* The section titles are named by the tag of category_tags; "highlights"  *)
(* is the highlights section and "other" a title outside the table.        *)

MaxUrl == 2
MaxDesc == 2
MaxSummaryLines == 4
MaxSummaries == 2

EntryFixedChars == 9
HeaderFixedChars == 3

category_tags == {"product", "model", "dev", "industry", "research"}

Line(kind, u, d, t) == [k |-> kind, url |-> u, n |-> d, title |-> t]
EntryLine(u, d) == Line("entry", u, d, "")
HeaderLine(t) == Line("header", 0, 0, t)
BlankLine == Line("blank", 0, 0, "")

TitleChars(t) == IF t = "highlights" THEN 4 ELSE 7

MdLineChars(l) ==
    CASE l.k = "entry" -> EntryFixedChars + l.n
      [] l.k = "header" -> HeaderFixedChars + TitleChars(l.title)
      [] l.k = "blank" -> 0
      [] OTHER -> l.n

(* len() of the lines joined by "\n" *)
ParaChars(para) ==
    SumSeq([i \in DOMAIN para |-> MdLineChars(para[i])]) + (Len(para) - 1)

(* text.split("\n\n") of a text whose paragraphs hold no blank line, and   *)
(* "\n\n".join(paragraphs): a text is kept as the sequence of its          *)
(* paragraphs, and these are its lines as split("\n") gives them.          *)
RECURSIVE TextLines(_)
TextLines(text) ==
    IF text = <<>> THEN <<>>
    ELSE IF Len(text) = 1 THEN Head(text)
    ELSE Head(text) \o <<BlankLine>> \o TextLines(Tail(text))

(* the links of a text, one per entry line, in order *)
Links(text) ==
    LET ls == TextLines(text)
    IN  SelectSeq([i \in DOMAIN ls |-> IF ls[i].k = "entry" THEN ls[i].url ELSE 0],
                  LAMBDA u : u # 0)

NoDuplicates(s) == \A i, j \in DOMAIN s : s[i] = s[j] => i = j

-----------------------------------------------------------------------------
(* _parse_summary_items: the paragraphs that start with "- [" and match    *)
(* the pattern (DOTALL: the description runs to the end of the paragraph). *)
(* A paragraph whose first line is an entry matches with that line's link, *)
(* unless nothing follows the separator: the description is (.+), and with *)
(* DOTALL the next lines of the paragraph count as description.            *)
RECURSIVE _parse_summary_items(_)
_parse_summary_items(summary_text) ==
    IF summary_text = <<>> THEN <<>>
    ELSE LET para == Head(summary_text)
             more == _parse_summary_items(Tail(summary_text))
         IN  IF para[1].k = "entry" /\ (para[1].n > 0 \/ Len(para) > 1)
             THEN <<[url |-> para[1].url, full_text |-> para]>> \o more
             ELSE more

(* The position of url among the keys of url_map, 0 if it is not a key *)
KeyIndex(url_map, url) ==
    IF \E i \in DOMAIN url_map : url_map[i].url = url
    THEN CHOOSE i \in DOMAIN url_map : url_map[i].url = url
    ELSE 0

(* len(item["full_text"]) > len(url_map[url]["full_text"]) *)
Longer(item, kept) == ParaChars(item.full_text) > ParaChars(kept.full_text)

(* url_map is a dict: a new key is appended, the value of an existing key  *)
(* is replaced in place.                                                   *)
RECURSIVE DedupLoop(_, _)
DedupLoop(items, url_map) ==
    IF items = <<>> THEN url_map
    ELSE LET item == Head(items)
             at == KeyIndex(url_map, item.url)
         IN  IF at = 0
             THEN DedupLoop(Tail(items), Append(url_map, item))
             ELSE IF Longer(item, url_map[at])
             THEN DedupLoop(Tail(items), [url_map EXCEPT ![at] = item])
             ELSE DedupLoop(Tail(items), url_map)

_deduplicate_items(all_items) == DedupLoop(all_items, <<>>)

(* all_items of run_report: the items of every summary, in order *)
AllItems(summaries) ==
    Concat([i \in DOMAIN summaries |-> _parse_summary_items(summaries[i])])

(* "\n\n".join(item["full_text"] for item in unique_items) *)
JoinNothing(items) == <<>>
JoinFullText(items) == [i \in DOMAIN items |-> items[i].full_text]

-----------------------------------------------------------------------------
(* _summary_md_to_html *)

(* sections: (title, lines) per "## " line; lines before the first one are *)
(* in no section.                                                          *)
RECURSIVE SplitSections(_, _, _)
SplitSections(ls, current, sections) ==
    IF ls = <<>> THEN sections \o current
    ELSE IF Head(ls).k = "header"
    THEN SplitSections(Tail(ls),
                       <<[title |-> Head(ls).title, lines |-> <<>>]>>,
                       sections \o current)
    ELSE SplitSections(Tail(ls),
                       IF current = <<>> THEN <<>>
                       ELSE <<[current[1] EXCEPT !.lines = Append(@, Head(ls))]>>,
                       sections)

SkippedToEnd(ls) == ls

(* the image and blank lines right after an entry line *)
RECURSIVE Skipped(_)
Skipped(ls) ==
    IF ls = <<>> \/ Head(ls).k \notin {"image", "blank"} THEN <<>>
    ELSE <<Head(ls)>> \o Skipped(Tail(ls))

(* the while loop over the lines of a category section: one card per entry *)
(* line, with the image of the last image line right after it              *)
RECURSIVE Cards(_)
Cards(ls) ==
    IF ls = <<>> THEN <<>>
    ELSE IF Head(ls).k = "entry"
    THEN LET skipped == Skipped(Tail(ls))
             imgs == SelectSeq(skipped, LAMBDA l : l.k = "image")
         IN  <<[url |-> Head(ls).url, n |-> Head(ls).n,
                img |-> IF imgs = <<>> THEN 0 ELSE imgs[Len(imgs)].n]>>
             \o Cards(SubSeq(ls, Len(skipped) + 2, Len(ls)))
    ELSE Cards(Tail(ls))

StartsWithDash(l) == l.k \in {"entry", "dash", "bullet"}
StartsWithDashBracket(l) == l.k \in {"entry", "dash"}

RECURSIVE RenderSections(_)
RenderSections(sections) ==
    IF sections = <<>> THEN <<>>
    ELSE LET s == Head(sections)
             more == RenderSections(Tail(sections))
             bullets == SelectSeq(s.lines, StartsWithDash)
         IN  IF s.title = "highlights"
             THEN IF bullets # <<>>
                  THEN <<[title |-> s.title, item_count |-> 0, cards |-> <<>>,
                          bullets |-> bullets]>> \o more
                  ELSE more
             ELSE IF s.title \notin category_tags THEN more
             ELSE <<[title |-> s.title,
                     item_count |-> Len(SelectSeq(s.lines, StartsWithDashBracket)),
                     cards |-> Cards(s.lines),
                     bullets |-> <<>>]>> \o more

_summary_md_to_html(md_text) == RenderSections(SplitSections(md_text, <<>>, <<>>))

-----------------------------------------------------------------------------
(* run_report over the summaries of the analysis files it found.  No tweet *)
(* of these analyses carries media, so no image is inserted in the text.   *)

PeriodLines ==
    {EntryLine(u, d) : u \in 1..MaxUrl, d \in 1..MaxDesc} \cup {HeaderLine("product")}

(* s cut after the positions in marks *)
Segments(s, marks) ==
    LET B == marks \cup {Len(s)}
        nth(k) == CHOOSE b \in B : Cardinality({x \in B : x <= b}) = k
    IN  [k \in 1..Cardinality(B) |->
            SubSeq(s, IF k = 1 THEN 1 ELSE nth(k - 1) + 1, nth(k))]

(* The summaries made of the lines flat, with a paragraph break after the  *)
(* positions in para_marks and a new summary after those in sum_marks.     *)
Summaries(flat, para_marks, sum_marks) ==
    IF flat = <<>> THEN <<>>
    ELSE LET paras == Segments(flat, para_marks)
             EndOf(k) == SumSeq([i \in 1..k |-> Len(paras[i])])
         IN  Segments(paras, {k \in 1..(Len(paras) - 1) : EndOf(k) \in sum_marks})

InitReport ==
    /\ \E n \in 0..MaxSummaryLines :
       \E flat \in [1..n -> PeriodLines] :
       \E para_marks \in SUBSET (1..(n - 1)) :
       \E sum_marks \in SUBSET para_marks :
          /\ Cardinality(sum_marks) < MaxSummaries
          /\ all_summaries = Summaries(flat, para_marks, sum_marks)
    /\ is_periodic \in BOOLEAN
    /\ consolidate_key \in BOOLEAN
    /\ consolidate_up \in (IF consolidate_key THEN BOOLEAN ELSE {FALSE})
    /\ ppc = "read"
    /\ unique_items = <<>>
    /\ consolidated = <<>>
    /\ final_summary = <<>>
    /\ report_files = {}
    /\ ScrapeUnused
    /\ BatchUnused
    /\ RobustUnused
    /\ LlmUnused
    /\ AnalyzeUnused
    /\ JobUnused
    /\ ReportUnused
    /\ CallUnused
    /\ RetryUnused
    /\ CacheUnused
    /\ ExtraUnused

(* No analysis holds a summary: run_report returns, nothing is written.    *)
ReportNoSummaries ==
    /\ ppc = "read"
    /\ all_summaries = <<>>
    /\ ppc' = "returned"
    /\ UNCHANGED <<is_periodic, consolidate_key, consolidate_up, all_summaries,
                   unique_items, consolidated, final_summary, report_files>>
    /\ UNCHANGED notPeriod

(* Step 2 up to the consolidation call. *)
Aggregate ==
    /\ ppc = "read"
    /\ all_summaries # <<>>
    /\ IF Len(all_summaries) = 1 /\ ~is_periodic
       THEN /\ final_summary' = <<[by |-> "single", text |-> all_summaries[1]]>>
            /\ ppc' = "render"
            /\ UNCHANGED unique_items
       ELSE LET unique == _deduplicate_items(AllItems(all_summaries))
            IN  /\ unique_items' = unique
                /\ IF is_periodic /\ unique # <<>>
                   THEN /\ ppc' = "consolidate"
                        /\ UNCHANGED final_summary
                   ELSE /\ final_summary' =
                              <<[by |-> "summaries", text |-> Concat(all_summaries)]>>
                        /\ ppc' = "render"
    /\ UNCHANGED <<is_periodic, consolidate_key, consolidate_up, all_summaries,
                   consolidated, report_files>>
    /\ UNCHANGED notPeriod

(* What the model may answer to the consolidation prompt: the entries      *)
(* under one heading, or an empty text.                                    *)
LlmTexts(items) ==
    {<<>>, <<<<HeaderLine("product")>>,
             [i \in DOMAIN items |-> items[i].full_text[1]]>>}

(* _claude_consolidate returns None without a key and when the request     *)
(* raises; consolidated or "\n\n".join(...) takes the items for None and   *)
(* for an empty text.                                                      *)
Consolidate ==
    /\ ppc = "consolidate"
    /\ \E text \in LlmTexts(unique_items) :
          LET returned == IF consolidate_key /\ consolidate_up
                          THEN <<text>> ELSE <<>>
          IN  /\ consolidated' = returned
              /\ final_summary' =
                    IF returned # <<>> /\ returned[1] # <<>>
                    THEN <<[by |-> "llm", text |-> returned[1]]>>
                    ELSE <<[by |-> "items", text |-> JoinFullText(unique_items)]>>
    /\ ppc' = "render"
    /\ UNCHANGED <<is_periodic, consolidate_key, consolidate_up, all_summaries,
                   unique_items, report_files>>
    /\ UNCHANGED notPeriod

(* Step 3: {base_name}.html and latest.html, both rendered from the final  *)
(* summary, and {base_name}.md, which holds the final summary as it is.    *)
WriteReport ==
    /\ ppc = "render"
    /\ LET md_text == TextLines(final_summary[1].text)
           body == _summary_md_to_html(md_text)
       IN  report_files' = {[name |-> "base_name.html", body |-> body],
                            [name |-> "latest.html", body |-> body],
                            [name |-> "base_name.md", body |-> md_text]}
    /\ ppc' = "written"
    /\ UNCHANGED <<is_periodic, consolidate_key, consolidate_up, all_summaries,
                   unique_items, consolidated, final_summary>>
    /\ UNCHANGED notPeriod

NextReport ==
    \/ ReportNoSummaries
    \/ Aggregate
    \/ Consolidate
    \/ WriteReport

SpecReport == InitReport /\ [][NextReport]_vars

-----------------------------------------------------------------------------
(* _summary_md_to_html called on a text of up to MaxMdLines lines *)

MaxMdLines == 4

MdLines ==
    {EntryLine(u, 1) : u \in 1..MaxUrl}
    \cup {HeaderLine(t) : t \in {"product", "research", "highlights", "other"}}
    \cup {Line(kind, 0, 1, "") : kind \in {"dash", "bullet", "image", "text"}}
    \cup {BlankLine}

InitRender ==
    /\ \E n \in 1..MaxMdLines : \E md_text \in [1..n -> MdLines] :
          args = [md_text |-> md_text]
    /\ result = <<>>
    /\ cpc = "input"
    /\ ScrapeUnused
    /\ BatchUnused
    /\ RobustUnused
    /\ LlmUnused
    /\ AnalyzeUnused
    /\ JobUnused
    /\ ReportUnused
    /\ RetryUnused
    /\ MoreUnused

CallRender ==
    /\ cpc = "input"
    /\ result' = <<_summary_md_to_html(args.md_text)>>
    /\ cpc' = "returned"
    /\ UNCHANGED args
    /\ UNCHANGED notCall

NextRender == CallRender

SpecRender == InitRender /\ [][NextRender]_vars

-----------------------------------------------------------------------------
(* _parse_summary_items and _summary_md_to_html called on the same         *)
(* Structured Summary: a category heading, then entries, which may have an *)
(* empty description, in paragraphs of one or more lines.                  *)

MaxExtractLines == 4

ExtractLines ==
    {EntryLine(u, d) : u \in 1..MaxUrl, d \in 0..1} \cup {HeaderLine("product")}

InitExtract ==
    /\ \E n \in 1..MaxExtractLines :
       \E flat \in [1..n -> ExtractLines] :
       \E para_marks \in SUBSET (1..(n - 1)) :
          /\ flat[1].k = "header"
          /\ args = [summary_text |-> Segments(flat, para_marks)]
    /\ result = [items |-> <<>>, html |-> <<>>]
    /\ cpc = "input"
    /\ ScrapeUnused
    /\ BatchUnused
    /\ RobustUnused
    /\ LlmUnused
    /\ AnalyzeUnused
    /\ JobUnused
    /\ ReportUnused
    /\ RetryUnused
    /\ MoreUnused

ExtractItems ==
    /\ cpc = "input"
    /\ result.items = <<>>
    /\ result' = [result EXCEPT !.items = <<_parse_summary_items(args.summary_text)>>]
    /\ cpc' = IF result.html # <<>> THEN "returned" ELSE "input"
    /\ UNCHANGED args
    /\ UNCHANGED notCall

ExtractRender ==
    /\ cpc = "input"
    /\ result.html = <<>>
    /\ result' = [result EXCEPT
                     !.html = <<_summary_md_to_html(TextLines(args.summary_text))>>]
    /\ cpc' = IF result.items # <<>> THEN "returned" ELSE "input"
    /\ UNCHANGED args
    /\ UNCHANGED notCall

NextExtract ==
    \/ ExtractItems
    \/ ExtractRender

SpecExtract == InitExtract /\ [][NextExtract]_vars

-----------------------------------------------------------------------------
(* get_following: the cached list of followed accounts.  Time is in hours; *)
(* an account is its number; the state starts as load_state gives it when  *)
(* there is no state file.                                                 *)

MaxClock == 4
MaxCacheHours == 2

Accounts == 1..MaxUsers

(* what a provider may return: the accounts followed at that time *)
ProviderLists == {SetToSeq(S) : S \in SUBSET Accounts}

(* self.now() - updated < timedelta(hours=cache_hours) *)
FreshInclusive(now_h, updated, ttl) == now_h - updated <= ttl
Fresh(now_h, updated, ttl) == now_h - updated < ttl

(* cached_data and cached_time: neither is None, and the list is not empty *)
Truthy2(cached_data, cached_time) ==
    /\ cached_data # <<>>
    /\ cached_data[1] # <<>>
    /\ cached_time # <<>>

CacheHit ==
    /\ Truthy2(followings_cache, followings_updated)
    /\ Fresh(clock, followings_updated[1], cache_hours)

(* [u for u in all_followings if u.get("username", "") not in exclude] *)
Excluding(accounts, exclude) == SelectSeq(accounts, LAMBDA u : u \notin exclude)

InitCache ==
    /\ followings_cache = <<>>
    /\ followings_updated = <<>>
    /\ clock = 0
    /\ cache_hours \in 0..MaxCacheHours
    /\ twitterapi_io_key \in BOOLEAN
    /\ bearer_token \in BOOLEAN
    /\ exclude_users \in {{}, {1}}
    /\ provider_calls = <<>>
    /\ following = <<>>
    /\ gpc = "idle"
    /\ ScrapeUnused
    /\ BatchUnused
    /\ RobustUnused
    /\ LlmUnused
    /\ AnalyzeUnused
    /\ JobUnused
    /\ ReportUnused
    /\ CallUnused
    /\ RetryUnused
    /\ PeriodUnused
    /\ ExtraUnused

(* The cache is used: no provider is asked, the cached list is returned as *)
(* it is.                                                                  *)
GetFollowingCached ==
    /\ gpc = "idle"
    /\ CacheHit
    /\ following' = followings_cache
    /\ provider_calls' = <<>>
    /\ gpc' = "returned"
    /\ UNCHANGED <<followings_cache, followings_updated, clock, cache_hours,
                   twitterapi_io_key, bearer_token, exclude_users>>
    /\ UNCHANGED notCache

(* The cache is not used: twitterapi.io is asked if a key is configured,   *)
(* the X API if that gave nothing and a bearer token is configured.  With  *)
(* a list from either, the state is updated and the list returned without  *)
(* the excluded users; with none, [] is returned.                          *)
GetFollowingRefresh ==
    /\ gpc = "idle"
    /\ ~CacheHit
    /\ \E io_ok, x_ok \in BOOLEAN : \E all_followings \in ProviderLists :
          LET io_calls == IF twitterapi_io_key
                          THEN <<[provider |-> "twitterapi.io", ok |-> io_ok]>>
                          ELSE <<>>
              got_io == twitterapi_io_key /\ io_ok
              x_calls == IF ~got_io /\ bearer_token
                         THEN <<[provider |-> "x", ok |-> x_ok]>>
                         ELSE <<>>
              got == got_io \/ (bearer_token /\ x_ok)
          IN  /\ provider_calls' = io_calls \o x_calls
              /\ IF got
                 THEN /\ followings_cache' = <<all_followings>>
                      /\ followings_updated' = <<clock>>
                      /\ following' = <<Excluding(all_followings, exclude_users)>>
                 ELSE /\ following' = <<<<>>>>
                      /\ UNCHANGED <<followings_cache, followings_updated>>
    /\ gpc' = "returned"
    /\ UNCHANGED <<clock, cache_hours, twitterapi_io_key, bearer_token,
                   exclude_users>>
    /\ UNCHANGED notCache

(* Time passes until get_following is called again. *)
Elapse ==
    /\ gpc = "returned"
    /\ \E d \in 0..(MaxClock - clock) : clock' = clock + d
    /\ gpc' = "idle"
    /\ UNCHANGED <<followings_cache, followings_updated, cache_hours,
                   twitterapi_io_key, bearer_token, exclude_users,
                   provider_calls, following>>
    /\ UNCHANGED notCache

NextCache ==
    \/ GetFollowingCached
    \/ GetFollowingRefresh
    \/ Elapse

SpecCache == InitCache /\ [][NextCache]_vars

-----------------------------------------------------------------------------
(* The artifact directories raw/, analysis/ and reports/.  A run names its *)
(* files by self.now() to the second, a periodic report by the period it   *)
(* was asked for, and every file is opened with mode "w".  A run that      *)
(* fails before its first write leaves the directories as they are and is  *)
(* no step here.                                                           *)

MaxStamp == 1
MaxDay == 1

Path(dir, kind, key, ext) == [dir |-> dir, kind |-> kind, key |-> key, ext |-> ext]

(* open(path, "w") for each of paths by the run that started at by *)
Written(paths, by) ==
    {f \in disk : f.path \notin paths} \cup {[path |-> q, stamp |-> by] : q \in paths}
(* the files of a run of an earlier second that this replaces *)
Overwritten(paths, by) ==
    {[path |-> f.path, old |-> f.stamp, new |-> by] :
        f \in {g \in disk : g.path \in paths /\ g.stamp < by}}

(* base_name of run_report: the period asked for, else the timestamp *)
base_name(period, now_s) ==
    IF period # <<>> THEN [kind |-> "daily", key |-> period[1]]
    ELSE [kind |-> "timestamp", key |-> now_s]

(* the files run_report writes, in the order it writes them *)
ReportPaths(period, now_s) ==
    LET b == base_name(period, now_s)
    IN  <<Path("reports", b.kind, b.key, "html"),
          Path("reports", "latest", 0, "html"),
          Path("reports", b.kind, b.key, "md")>>

InitArtifacts ==
    /\ disk = {}
    /\ lost = {}
    /\ stamp = 0
    /\ OlderUnused
    /\ JobUnused
    /\ PollUnused
    /\ PagingUnused
    /\ RaceUnused

(* run_scrape writes raw/{timestamp}.json *)
ScrapeWrites ==
    /\ LET paths == {Path("raw", "timestamp", stamp, "json")}
       IN  /\ disk' = Written(paths, stamp)
           /\ lost' = lost \cup Overwritten(paths, stamp)
    /\ UNCHANGED stamp
    /\ UNCHANGED notArtifact

(* run_analyze, given raw files, writes analysis/{timestamp}.json *)
AnalyzeWrites ==
    /\ \E f \in disk : f.path.dir = "raw"
    /\ LET paths == {Path("analysis", "timestamp", stamp, "json")}
       IN  /\ disk' = Written(paths, stamp)
           /\ lost' = lost \cup Overwritten(paths, stamp)
    /\ UNCHANGED stamp
    /\ UNCHANGED notArtifact

(* run_report, given analysis files, writes its files; it may fail after   *)
(* any of them.                                                            *)
ReportWrites ==
    /\ \E f \in disk : f.path.dir = "analysis"
    /\ \E period \in {<<>>} \cup {<<d>> : d \in 1..MaxDay} : \E upto \in 1..3 :
          LET paths == Range(SubSeq(ReportPaths(period, stamp), 1, upto))
          IN  /\ disk' = Written(paths, stamp)
              /\ lost' = lost \cup Overwritten(paths, stamp)
    /\ UNCHANGED stamp
    /\ UNCHANGED notArtifact

(* a second passes *)
Tick ==
    /\ stamp < MaxStamp
    /\ stamp' = stamp + 1
    /\ UNCHANGED <<disk, lost>>
    /\ UNCHANGED notArtifact

NextArtifacts ==
    \/ ScrapeWrites
    \/ AnalyzeWrites
    \/ ReportWrites
    \/ Tick

SpecArtifacts == InitArtifacts /\ [][NextArtifacts]_vars

-----------------------------------------------------------------------------
(* _get_followings_twitterapiio: the pages of the following list, each     *)
(* fetched by _twitterapiio_get.  The page count and the length of         *)
(* all_followings are counted up to MaxPage and MaxFetched and stay there. *)

MaxPage == 5
MaxFetched == 3
MaxPageSize == 2

retry_attempts == 3

Capped(n, most) == IF n > most THEN most ELSE n

InitPaging ==
    /\ fpc = "paging"
    /\ page = 1
    /\ fetch_attempt = 0
    /\ max_followings \in {0, MaxFetched - 1}
    /\ fetched = 0
    /\ OlderUnused
    /\ JobUnused
    /\ PollUnused
    /\ ArtifactUnused
    /\ RaceUnused

(* status 429 with attempts left: sleep 10 s and ask again *)
RateLimited ==
    /\ fpc = "paging"
    /\ fetch_attempt + 1 < retry_attempts
    /\ fetch_attempt' = fetch_attempt + 1
    /\ UNCHANGED <<fpc, page, max_followings, fetched>>
    /\ UNCHANGED notPaging

(* status 429 on the last attempt, or another error status or a timeout:   *)
(* _twitterapiio_get raises, and so does the fetch of the list             *)
GetRaises ==
    /\ fpc = "paging"
    /\ fpc' = "raised"
    /\ UNCHANGED <<page, fetch_attempt, max_followings, fetched>>
    /\ UNCHANGED notPaging

(* a page arrives: size accounts, has_next iff has_next_page and           *)
(* next_cursor are both set                                                *)
GetPage ==
    /\ fpc = "paging"
    /\ \E size \in 0..MaxPageSize, has_next \in BOOLEAN :
          LET n == Capped(fetched + size, MaxFetched)
              full == max_followings > 0 /\ n >= max_followings
          IN  /\ fetched' = IF full THEN max_followings ELSE n
              /\ IF full \/ ~has_next
                 THEN fpc' = "returned" /\ UNCHANGED page
                 ELSE fpc' = "paging" /\ page' = Capped(page + 1, MaxPage)
    /\ fetch_attempt' = 0
    /\ UNCHANGED max_followings
    /\ UNCHANGED notPaging

NextPaging ==
    \/ RateLimited
    \/ GetRaises
    \/ GetPage

(* every request is answered or times out *)
SpecPaging == InitPaging /\ [][NextPaging]_vars /\ WF_vars(NextPaging)

-----------------------------------------------------------------------------
(* Scrape runs that share one state file.  Each job builds its own engine  *)
(* in a thread of the executor: the engine loads the state file when it is *)
(* built, run_scrape marks ids in the engine's own set, and save_state     *)
(* writes that set over the file.  ledger is the seen_tweets of the file,  *)
(* engine_seen[r] the set of engine r, marked[r] the ids r has marked.     *)

MaxRacers == 2

Racers == 1..MaxRacers

InitRace ==
    /\ ledger = {}
    /\ engine_seen = [r \in Racers |-> {}]
    /\ race_pc = [r \in Racers |-> "idle"]
    /\ marked = [r \in Racers |-> {}]
    /\ OlderUnused
    /\ JobUnused
    /\ PollUnused
    /\ ArtifactUnused
    /\ PagingUnused

(* TwitterWatchdog.__init__: self.state = self.load_state() *)
RaceLoad(r) ==
    /\ race_pc[r] = "idle"
    /\ engine_seen' = [engine_seen EXCEPT ![r] = ledger]
    /\ race_pc' = [race_pc EXCEPT ![r] = "loaded"]
    /\ UNCHANGED <<ledger, marked>>
    /\ UNCHANGED notRace

(* run_scrape: a fetched tweet that is not seen is kept and marked *)
RaceMark(r, id) ==
    /\ race_pc[r] = "loaded"
    /\ id \notin engine_seen[r]
    /\ engine_seen' = [engine_seen EXCEPT ![r] = @ \cup {id}]
    /\ marked' = [marked EXCEPT ![r] = @ \cup {id}]
    /\ UNCHANGED <<ledger, race_pc>>
    /\ UNCHANGED notRace

(* run_scrape: self.save_state() writes the engine's set over the file *)
RaceSave(r) ==
    /\ race_pc[r] = "loaded"
    /\ ledger' = engine_seen[r]
    /\ race_pc' = [race_pc EXCEPT ![r] = "saved"]
    /\ UNCHANGED <<engine_seen, marked>>
    /\ UNCHANGED notRace

NextRace ==
    \E r \in Racers :
        \/ RaceLoad(r)
        \/ \E id \in Ids : RaceMark(r, id)
        \/ RaceSave(r)

SpecRace == InitRace /\ [][NextRace]_vars

-----------------------------------------------------------------------------
(* Claims about run_scrape *)

Emitted(raw) == Range(raw.followings) \cup Range(raw.trending)

\* C1: with deduplication enabled, an item id emitted in the raw artifact of
\* one run (followed or trending section) is never emitted again in the raw
\* artifact of a later run, whichever provider delivers it the second time.
C1_NoReEmission ==
    deduplicate =>
        \A i, j \in DOMAIN raw_files :
            i < j => Emitted(raw_files[i]) \cap Emitted(raw_files[j]) = {}

\* C2: wherever a run crashes, every id persisted as seen in the state file
\* is contained in a raw artifact that has already been written.
C2_SeenOnlyAfterRaw ==
    spc = "crashed" =>
        \A tweet_id \in Ids :
            get_tweet_hash(tweet_id) \in state_file =>
                \E i \in DOMAIN raw_files : tweet_id \in Emitted(raw_files[i])

-----------------------------------------------------------------------------
(* Claims about the token batcher *)

-----------------------------------------------------------------------------
(* Claims about the robust batch call *)

\* C4: when the call for a batch fails, a batch of 10 or fewer lines returns
\* the empty result with zero usage; a larger batch is cut at len//2 into
\* two halves that together are the batch in order, each half is called
\* through the same function at depth+1, and the result returned is the
\* merge of the halves' results: union of the id sets, left-then-right
\* concatenation of the summaries, sum of the token usage.
C4_SplitAndMerge ==
    \A r \in returns :
        r.failed =>
            IF Len(r.lines) <= 10
            THEN /\ r.res = EmptyResult
                 /\ ~ \E c \in calls :
                        c.depth = r.depth + 1 /\ Range(c.lines) \subseteq Range(r.lines)
            ELSE LET mid == Len(r.lines) \div 2
                     l == SubSeq(r.lines, 1, mid)
                     h == SubSeq(r.lines, mid + 1, Len(r.lines))
                 IN /\ l \o h = r.lines
                    /\ \E rl, rh \in returns :
                          /\ rl.lines = l /\ rl.depth = r.depth + 1
                          /\ rh.lines = h /\ rh.depth = r.depth + 1
                          /\ r.res.ids = rl.res.ids \cup rh.res.ids
                          /\ r.res.urgent = rl.res.urgent \cup rh.res.urgent
                          /\ r.res.summaries = rl.res.summaries \o rh.res.summaries
                          /\ r.res.inp = rl.res.inp + rh.res.inp
                          /\ r.res.out = rl.res.out + rh.res.out

\* C4 witness: a failed batch of more than 10 lines has returned a merged
\* result to which both halves contributed, and a failed batch of at most 10
\* lines has returned empty.
C4_Witness ==
    /\ \E r, rl, rh \in returns :
          /\ r.failed /\ Len(r.lines) > 10
          /\ rl.depth = r.depth + 1 /\ rh.depth = r.depth + 1
          /\ rl.lines \o rh.lines = r.lines
          /\ rl.res.inp > 0 /\ rh.res.inp > 0
          /\ r.res.inp = rl.res.inp + rh.res.inp
    /\ \E r \in returns : r.failed /\ Len(r.lines) <= 10

StrictlySmaller ==
    \A i \in 1..(Len(stack) - 1) : Len(stack[i + 1].lines) < Len(stack[i].lines)

IsLeaf(r) ==
    ~ \E c \in calls : c.depth = r.depth + 1 /\ Range(c.lines) \subseteq Range(r.lines)

\* C5: with an endpoint that always fails, the recursion only descends to
\* strictly smaller sub-batches, every leaf has at most 10 lines, and the
\* outermost call returns, with the empty result.
C5_AlwaysFailTerminates ==
    /\ [](oracle.kind = "down" =>
            /\ StrictlySmaller
            /\ \A r \in returns : IsLeaf(r) => Len(r.lines) <= 10)
    /\ (oracle.kind = "down") ~> (RobustDone /\ ret = <<EmptyResult>>)

\* C5 witness: an always-failing endpoint, a batch split twice, the
\* outermost call has returned.
C5_Witness ==
    /\ oracle.kind = "down"
    /\ RobustDone
    /\ \E c \in calls : c.depth = 2
    /\ \A c \in calls : ~c.ok

Covered(l) == \E c \in calls : c.ok /\ l \in Range(c.lines)

RootFailed == \E c \in calls : c.depth = 0 /\ ~c.ok

SubBatches(ls) == {SubSeq(ls, i, j) : i, j \in 1..Len(ls)} \ {<<>>}

WouldSucceed(sub) == LineIds(sub) \cap oracle.bad = {}

\* C6 (as claimed): if the call on the whole batch fails but a call on some
\* sub-batch containing a line would have succeeded, the line is part of the
\* input of some successful call.
C6_NoLineLost ==
    (RobustDone /\ oracle.kind = "poison") =>
        \A l \in Range(batch) :
            (RootFailed /\ \E sub \in SubBatches(batch) :
                               l \in Range(sub) /\ WouldSucceed(sub))
                => Covered(l)

(* The sub-batches the bisection reaches for line l: the batch, then the   *)
(* half holding l, for as long as the batch has more than 10 lines.        *)
RECURSIVE BisectionPath(_, _)
BisectionPath(ls, l) ==
    {ls} \cup
    IF Len(ls) <= 10 THEN {}
    ELSE LET mid == Len(ls) \div 2
         IN IF l \in Range(SubSeq(ls, 1, mid))
            THEN BisectionPath(SubSeq(ls, 1, mid), l)
            ELSE BisectionPath(SubSeq(ls, mid + 1, Len(ls)), l)

\* C6 (amended): when the robust batch call has returned, a line is part of
\* the input of some successful call unless the calls on all sub-batches of
\* its bisection path were made and failed; so if the call on the whole
\* batch fails but a call on a sub-batch of the line's bisection path would
\* have succeeded, the line is part of the input of a successful call.
C6_LineKeptOnBisectionPath ==
    RobustDone =>
        \A l \in Range(batch) :
            /\ Covered(l) \/ \A sub \in BisectionPath(batch, l) :
                                 \E c \in calls : c.lines = sub /\ ~c.ok
            /\ (oracle.kind = "poison" /\ RootFailed
                /\ \E sub \in BisectionPath(batch, l) : WouldSucceed(sub))
                    => Covered(l)

\* C6 witness: the whole batch failed, one line was recovered by a
\* successful call on a sub-batch, and another line that is not bad was lost.
C6_Witness ==
    /\ RobustDone
    /\ oracle.kind = "poison"
    /\ RootFailed
    /\ \E l \in Range(batch) : Covered(l)
    /\ \E l \in Range(batch) : l[1] \notin oracle.bad /\ ~Covered(l)

-----------------------------------------------------------------------------
(* The merge and validate calls *)

FailedCalls == {k \in DOMAIN api_log : ~api_log[k].ok}

\* C7: a failed merge call or a failed validate call never aborts the
\* analysis: generate_ai_summary still returns a summary, the partial
\* summaries as they were given to the failed call, and the analysis
\* artifact is still written with it.
C7_MergeValidateNonFatal ==
    \A k \in FailedCalls :
        /\ apc \in {"write", "done"}
        /\ summary.text = [kind |-> "raw", of |-> api_log[k].input]
        /\ apc = "done" =>
              /\ analysis # <<>>
              /\ analysis[1].summary = summary.text

SummarizeRan == variant = "summarize" /\ apc \in {"write", "done", "raised"}

CallsOf(call) == {k \in DOMAIN api_log : api_log[k].call = call}

\* C9 (as claimed): once the summarize stage is over and has produced at
\* least one partial summary, a validate call has been made if and only if
\* there was exactly one batch; with more than one batch exactly one merge
\* call has been made, over the partial summaries, and no validate call.
C9_ValidateIffOneBatch ==
    SummarizeRan /\ partial_summaries # <<>> =>
        /\ CallsOf("validate") # {} <=> Len(batches) = 1
        /\ Len(batches) > 1 =>
              /\ Cardinality(CallsOf("merge")) = 1
              /\ \A k \in CallsOf("merge") : api_log[k].input = partial_summaries
              /\ CallsOf("validate") = {}

Pass2Log == SelectSeq(batch_log, LAMBDA e : e.pass = "pass2")

\* C9 (amended): once the summarize stage is over, partial_summaries is the
\* concatenation, in batch order, of the summaries the robust call returned
\* for each batch; exactly one partial summary means exactly one validate
\* call, on that summary, and no merge call; two or more mean exactly one
\* merge call, on all of them in order, and no validate call; none means
\* neither call.
C9_ValidateIffOnePartial ==
    SummarizeRan =>
        /\ Len(Pass2Log) = Len(batches)
        /\ partial_summaries = Concat([k \in DOMAIN Pass2Log |-> Pass2Log[k].summaries])
        /\ Len(api_log) <= 1
        /\ \A k \in DOMAIN api_log : api_log[k].input = partial_summaries
        /\ CallsOf("validate") # {} <=> Len(partial_summaries) = 1
        /\ CallsOf("merge") # {} <=> Len(partial_summaries) > 1

\* C9 witness: a single batch whose call failed was split into two halves
\* that were both summarized, and the two partial summaries were merged.
C9_Witness ==
    /\ SummarizeRan
    /\ Len(batches) = 1
    /\ Len(partial_summaries) = 2
    /\ CallsOf("merge") # {}
    /\ CallsOf("validate") = {}

-----------------------------------------------------------------------------
(* The relevance pass *)

Pass1Log == SelectSeq(batch_log, LAMBDA e : e.pass = "pass1")

Pass1Over == _urgent_ids # <<>>

UnionIds == UNION {Pass1Log[k].ids : k \in DOMAIN Pass1Log}

UnionUrgent == UNION {Pass1Log[k].urgent : k \in DOMAIN Pass1Log}

Answered == {k \in DOMAIN Pass1Log : Pass1Log[k].answered}

AllTweets == Range(filtered_followings) \cup Range(filtered_trending)

(* generate_ai_summary returned (None, None) from the relevance pass, so   *)
(* run_analyze keeps every tweet.                                          *)
FallbackTaken == Pass1Over /\ apc \in {"write", "done"} /\ summary.ids = <<>>

WrittenTweets ==
    Range(analysis[1].filtered_followings) \cup Range(analysis[1].filtered_trending)

(* Once the relevance pass is over the accumulated sets are the unions of  *)
(* the sets returned per batch, and the artifact is written from them.     *)
UnionsKept ==
    /\ ai_tweet_ids = UnionIds
    /\ urgent_ids = UnionUrgent
    /\ _urgent_ids = <<UnionUrgent>>
    /\ apc = "done" =>
          /\ analysis[1].urgent_ids = UnionUrgent
          /\ IF FallbackTaken
             THEN analysis[1].ai_tweet_ids = {} /\ WrittenTweets = AllTweets
             ELSE analysis[1].ai_tweet_ids = UnionIds
                  /\ WrittenTweets = AllTweets \cap UnionIds

\* C8 (as claimed): once the relevance pass is over, the relevant-id set and
\* the urgent-id set are the unions of the sets returned for the batches,
\* and every tweet is kept as relevant if and only if no batch call was
\* answered.
C8_FallbackIffNoBatchAnswered ==
    Pass1Over => UnionsKept /\ (FallbackTaken <=> Answered = {})

\* C8 (amended): once the relevance pass is over, the relevant-id set and the
\* urgent-id set are the unions of the sets returned for the batches, and
\* every tweet is kept as relevant if and only if that union of relevant ids
\* is empty; this is so when no batch call was answered, and also when the
\* answered calls named no relevant tweet.
C8_FallbackIffUnionEmpty ==
    Pass1Over =>
        /\ UnionsKept
        /\ apc \in {"write", "done"} => (FallbackTaken <=> UnionIds = {})
        /\ UnionIds = {} => apc \in {"write", "done"}
        /\ Answered = {} => UnionIds = {}

\* C8 witness: the relevance pass ran two batches, both were answered, no
\* tweet was judged relevant, and the artifact keeps every tweet.
C8_Witness ==
    /\ Pass1Over
    /\ Len(Pass1Log) = 2
    /\ Answered = {1, 2}
    /\ FallbackTaken
    /\ apc = "done"
    /\ WrittenTweets = AllTweets

-----------------------------------------------------------------------------
(* Cancellation *)

\* C10: once the cancellation of a job has been committed, the job's status
\* stays "cancelled", and its engine finishes at most the stage that was in
\* flight at that moment.
C10_CancelledStaysCancelled ==
    \A j \in Jobs :
        cancelled_at[j] # <<>> =>
            /\ job_status[j] = "cancelled"
            /\ stage[j] <= cancelled_at[j][1] + 1

-----------------------------------------------------------------------------
(* An endpoint that is down *)

SmallSummarizeInput ==
    /\ variant = "summarize"
    /\ Len(batches) = 1
    /\ Len(batches[1]) <= MinSplitLines

\* C11: with an endpoint that always errors and a summarize input of 10
\* lines or fewer, the robust call made one failed LLM call and no other,
\* no exception ended the analysis, and once run_report has run a report
\* has been written.
C11_DownStillReports ==
    oracle.kind = "down" /\ SmallSummarizeInput /\ rpc # "idle" =>
        /\ calls = {[lines |-> batches[1], depth |-> 0, ok |-> FALSE]}
        /\ partial_summaries = <<>>
        /\ apc = "done"
        /\ report # <<>>

-----------------------------------------------------------------------------
(* The order of the filter rules *)

SameLetter(c, d) ==
    \/ c = d
    \/ {c, d} = {"a", "A"}
    \/ {c, d} = {"b", "B"}

(* kw occurs in text at some position, letter case ignored *)
Occurs(kw, text) ==
    \E i \in 0..(Len(text) - Len(kw)) :
        \A k \in 1..Len(kw) : SameLetter(kw[k], text[i + k])

LangMismatch == args.filters_config.language \notin {"all", args.tweet.lang}

LowEngagement ==
    \/ args.tweet.likeCount < args.filters_config.min_likes
    \/ args.tweet.retweetCount < args.filters_config.min_retweets

ExcludeHit ==
    \E k \in DOMAIN args.filters_config.exclude :
        Occurs(args.filters_config.exclude[k], args.tweet.text)

IncludeMiss ==
    /\ args.filters_config.include # <<>>
    /\ ~ \E k \in DOMAIN args.filters_config.include :
             Occurs(args.filters_config.include[k], args.tweet.text)

(* The verdict of the first rule that matches, in the fixed order *)
FirstRule ==
    IF ~args.filters_config.enabled THEN TRUE
    ELSE IF LangMismatch THEN FALSE
    ELSE IF LowEngagement THEN FALSE
    ELSE IF args.ai_filter THEN TRUE
    ELSE IF ExcludeHit THEN FALSE
    ELSE IF IncludeMiss THEN FALSE
    ELSE TRUE

\* C15: filter_tweet returns the verdict of the first matching rule in the
\* order: filters disabled accept, language mismatch reject, likes or
\* reposts below the minimum reject, ai_filter mode accept, exclude keyword
\* occurring in the text (letter case ignored) reject, include list
\* non-empty without an occurrence reject, otherwise accept; in ai_filter
\* mode a language or engagement failure still rejects and an exclude
\* keyword does not.
C15_FirstRuleWins ==
    cpc = "returned" /\ "tweet" \in DOMAIN args =>
        /\ result[1][1] = FirstRule
        /\ args.filters_config.enabled /\ (LangMismatch \/ LowEngagement)
              => ~result[1][1]
        /\ args.filters_config.enabled /\ args.ai_filter
           /\ ~LangMismatch /\ ~LowEngagement => result[1][1]

\* C15 witness: filters on, not ai_filter mode, language and engagement
\* pass, an exclude keyword occurs in the text in another letter case, and
\* the tweet was rejected.
C15_Witness ==
    /\ cpc = "returned"
    /\ "tweet" \in DOMAIN args
    /\ args.filters_config.enabled
    /\ ~args.ai_filter
    /\ ~LangMismatch
    /\ ~LowEngagement
    /\ ExcludeHit
    /\ \A k \in DOMAIN args.filters_config.exclude :
           ~Contains(args.filters_config.exclude[k], args.tweet.text)
    /\ result[1] = <<FALSE, "excluded_keyword">>

-----------------------------------------------------------------------------
(* The window filter *)

Windowed == cpc = "returned" /\ "hours_ago" \in DOMAIN args

Unparsable == args.tweet.createdAt.fmt \in {"empty", "garbage"}

(* The rule as claimed: look-back unset, or timestamp unparsable, or       *)
(* created_at >= now - look-back.                                          *)
LookbackRule ==
    \/ args.hours_ago = <<>>
    \/ Unparsable
    \/ args.tweet.createdAt.t >= args.now - args.hours_ago[1]

\* C14 (as claimed): with no explicit from/to bound given, both
\* is_tweet_in_window and the window test of the analyze stage keep a tweet
\* exactly when the look-back is unset, or its timestamp cannot be parsed,
\* or its created_at >= now - look-back.
C14_WindowRule ==
    Windowed /\ args.time_from = <<>> /\ args.time_to = <<>> =>
        (result[1] <=> LookbackRule)

\* C14 (amended): is_tweet_in_window keeps a tweet exactly when the look-back
\* is unset, or its timestamp cannot be parsed, or created_at >= now -
\* look-back.  The analyze stage, with no explicit from/to bound, keeps a
\* tweet exactly when the look-back is unset or zero, or its timestamp
\* cannot be parsed, or now - look-back <= created_at <= now; with an
\* explicit bound it ignores the look-back and keeps a tweet exactly when
\* its timestamp cannot be parsed or lies within the given bounds.
C14_WindowRuleByFunction ==
    Windowed =>
        IF args.fn = "is_tweet_in_window"
        THEN result[1] <=> LookbackRule
        ELSE IF args.time_from = <<>> /\ args.time_to = <<>>
        THEN result[1] <=>
                \/ args.hours_ago \in {<<>>, <<0>>}
                \/ Unparsable
                \/ /\ args.tweet.createdAt.t >= args.now - args.hours_ago[1]
                   /\ args.tweet.createdAt.t <= args.now
        ELSE result[1] <=>
                \/ Unparsable
                \/ /\ args.time_from # <<>> => args.tweet.createdAt.t >= args.time_from[1]
                   /\ args.time_to # <<>> => args.tweet.createdAt.t <= args.time_to[1]

\* C14 witness: look-back 8h in the analyze stage, no explicit bound; a
\* tweet stamped after now was dropped.
C14_Witness ==
    /\ Windowed
    /\ args.fn = "run_analyze"
    /\ args.hours_ago = <<8>>
    /\ args.time_from = <<>>
    /\ args.time_to = <<>>
    /\ ~Unparsable
    /\ args.tweet.createdAt.t > args.now
    /\ result[1] = FALSE

-----------------------------------------------------------------------------
(* What reaches the LLM input, and what is counted without an LLM *)

InBothSections ==
    {t.id : t \in Range(args.all_followings)} \cap {t.id : t \in Range(args.all_trending)}

(* The tweet lines of the LLM input that show the tweet; the URL part of a *)
(* split tweet line is not counted again.                                  *)
Occurrences(id) ==
    Cardinality({k \in DOMAIN lines : lines[k][1] = id /\ lines[k][2] # UrlChars})

\* C12: when the first pass over the batches starts, a tweet id present in
\* both the followed and the trending section of the raw input, and left by
\* the window and content filters, is shown by exactly one of the lines
\* built for the LLM input.
C12_OneOccurrence ==
    apc \in {"pass1", "pass2"} /\ "all_followings" \in DOMAIN args =>
        \A id \in InBothSections :
            id \in Range(filtered_followings) \cup Range(filtered_trending)
                => Occurrences(id) = 1

LocalPass(t) ==
    /\ window_keeps(t, analyze_window(args.hours_ago, args.time_from,
                                      args.time_to, args.now))
    /\ filter_tweet(t, args.filters_config, FALSE)[1]

LocalPassCount ==
    Len(SelectSeq(args.all_followings, LocalPass))
    + Len(SelectSeq(args.all_trending, LocalPass))

\* C13: without an API key the analysis has not raised, and the artifact it
\* wrote has a filtered_count equal to the number of input tweets that pass
\* the window test and the local filter rules.
C13_LocalRulesWithoutKey ==
    ~api_key /\ apc = "done" /\ "all_followings" \in DOMAIN args =>
        total_filtered(analysis[1]) = LocalPassCount

-----------------------------------------------------------------------------
(* Retries *)

Posts == SelectSeq(wire, LAMBDA e : e.event = "post")

Sleeps == SelectSeq(wire, LAMBDA e : e.event = "sleep")

\* C16: one call of _call_claude_api posts at most max_retries requests; it
\* returns exactly when its last request succeeded, and no request follows
\* a successful one; it raises exactly when max_retries requests were
\* posted and all failed, and then returns nothing; before request k+1 it
\* sleeps 10*k seconds, and the timeout of request k+1 is 1.5 times that of
\* request k (whole seconds), the first being the given timeout.
C16_BoundedRetries ==
    "max_retries" \in DOMAIN args =>
        /\ Len(Posts) <= args.max_retries
        /\ \A k \in DOMAIN Posts :
              /\ Posts[k].attempt = k
              /\ Posts[k].outcome = "ok" => k = Len(Posts)
              /\ k = 1 => Posts[k].timeout = args.timeout
              /\ k > 1 => /\ 2 * Posts[k].timeout <= 3 * Posts[k - 1].timeout
                          /\ 2 * Posts[k].timeout > 3 * Posts[k - 1].timeout - 2
        /\ cpc = "returned" <=>
              Posts # <<>> /\ Posts[Len(Posts)].outcome = "ok"
        /\ cpc = "returned" => result = <<[text |-> Len(Posts)]>>
        /\ cpc = "raised" <=>
              /\ Len(Posts) = args.max_retries
              /\ \A k \in DOMAIN Posts : Posts[k].outcome # "ok"
        /\ cpc = "raised" => result = <<>>
        /\ \A k \in DOMAIN Sleeps :
              /\ Sleeps[k].outcome = 10 * k
              /\ k < Len(Posts) \/ cpc = "post"
        /\ Len(Sleeps) = IF cpc = "post" THEN Len(Posts) ELSE Len(Posts) - 1
        /\ args.max_retries = DefaultRetries /\ Len(Posts) = DefaultRetries =>
              /\ Posts[2].timeout = 180
              /\ Posts[3].timeout = 270

\* C16 witness: the default three attempts all failed, with sleeps of 10s
\* and 20s between them, and the call raised.
C16_Witness ==
    /\ "max_retries" \in DOMAIN args
    /\ args.max_retries = DefaultRetries
    /\ cpc = "raised"
    /\ Len(Posts) = 3
    /\ Len(Sleeps) = 2
    /\ Sleeps[2].outcome = 20

-----------------------------------------------------------------------------
(* The periodic report *)

PeriodicAggregated == is_periodic /\ ppc \in {"consolidate", "render", "written"}

ItemsWithLink(items, u) == {i \in DOMAIN items : items[i].url = u}

(* _deduplicate_items keeps one item per link of its input, and the item   *)
(* kept for a link is one of the input, no shorter than any other item of  *)
(* the input with that link.                                               *)
DedupOnePerLinkLongest ==
    PeriodicAggregated =>
        LET all_items == AllItems(all_summaries)
        IN  /\ {unique_items[i].url : i \in DOMAIN unique_items}
                 = {all_items[i].url : i \in DOMAIN all_items}
            /\ \A i, j \in DOMAIN unique_items :
                   unique_items[i].url = unique_items[j].url => i = j
            /\ \A i \in DOMAIN unique_items :
                   /\ \E j \in DOMAIN all_items : all_items[j] = unique_items[i]
                   /\ \A j \in ItemsWithLink(all_items, unique_items[i].url) :
                          ParaChars(all_items[j].full_text)
                              <= ParaChars(unique_items[i].full_text)

(* no summary of the period names a link twice *)
CleanSummaries ==
    \A i \in DOMAIN all_summaries : NoDuplicates(Links(all_summaries[i]))

\* C17: a periodic report made from the deduplicated items (consolidated by
\* the model, or the items themselves when there is no consolidated text)
\* holds no link twice, given summaries that each hold no link twice.
C17_NoDuplicateLinks ==
    /\ is_periodic
    /\ CleanSummaries
    /\ ppc = "written"
    /\ final_summary[1].by \in {"llm", "items"}
    => NoDuplicates(Links(final_summary[1].text))

(* run_report got None from _claude_consolidate *)
NoConsolidation == ~consolidate_key \/ ~consolidate_up

ReportNames == {f.name : f \in report_files}

\* C18: in a periodic report with deduplicated items, when there is no API
\* key or the consolidation request fails, the final summary is the text of
\* the deduplicated items, each once and in their order, with nothing from
\* the model, and the report files are written from it.
C18_FallbackRawList ==
    /\ is_periodic
    /\ unique_items # <<>>
    /\ NoConsolidation
    /\ ppc \in {"render", "written"}
    => /\ consolidated = <<>>
       /\ final_summary # <<>>
       /\ final_summary[1].by = "items"
       /\ Len(final_summary[1].text) = Len(unique_items)
       /\ \A i \in DOMAIN unique_items :
              final_summary[1].text[i] = unique_items[i].full_text
       /\ ppc = "written" =>
              /\ ReportNames = {"base_name.html", "latest.html", "base_name.md"}
              /\ \A f \in report_files :
                     f.body = IF f.name = "base_name.md"
                              THEN TextLines(final_summary[1].text)
                              ELSE _summary_md_to_html(TextLines(final_summary[1].text))

\* C18 witness: a key is configured, the consolidation request failed, and
\* the report of two deduplicated items is written.
C18_Witness ==
    /\ is_periodic
    /\ consolidate_key
    /\ ~consolidate_up
    /\ Len(unique_items) = 2
    /\ ppc = "written"
    /\ final_summary[1].by = "items"
    /\ ReportNames = {"base_name.html", "latest.html", "base_name.md"}

-----------------------------------------------------------------------------
(* Rendering a summary *)

RenderReturned == cpc = "returned" /\ "md_text" \in DOMAIN args

(* the positions of the "## " lines, and the title a line stands under *)
HeaderAt(md) == {i \in DOMAIN md : md[i].k = "header"}
SectionOf(md, i) ==
    IF \E h \in HeaderAt(md) : h < i
    THEN LET h == CHOOSE x \in HeaderAt(md) :
                     x < i /\ \A y \in HeaderAt(md) : y < i => y <= x
         IN  h
    ELSE 0

(* the entry lines that stand under the heading at h, as <<link, description>> *)
EntriesUnder(md, h) ==
    LET picked == [i \in DOMAIN md |->
                      IF md[i].k = "entry" /\ SectionOf(md, i) = h
                      THEN <<md[i].url, md[i].n, i>> ELSE <<>>]
        kept == SelectSeq(picked, LAMBDA e : e # <<>>)
    IN  [i \in DOMAIN kept |-> <<kept[i][1], kept[i][2]>>]

(* the headings with a title of the category table, in source order *)
CategoryHeadings(md) ==
    LET marks == [i \in DOMAIN md |->
                     IF md[i].k = "header" /\ md[i].title \in category_tags
                     THEN i ELSE 0]
    IN  SelectSeq(marks, LAMBDA h : h # 0)

RenderedCategories(out) == SelectSeq(out, LAMBDA s : s.title # "highlights")

CardsOf(section) ==
    [i \in DOMAIN section.cards |-> <<section.cards[i].url, section.cards[i].n>>]

\* The cards (part of C19): the rendered category sections are the headings
\* of the text whose
\* title is in the category table, in source order, and the cards of each are
\* exactly the entry lines under that heading, in source order; no other line
\* makes a card, and nothing is rendered for a heading whose title is neither
\* in the table nor the highlights title.
RenderKeepsEntries ==
    RenderReturned =>
        LET md == args.md_text
            out == result[1]
            cats == RenderedCategories(out)
            heads == CategoryHeadings(md)
        IN  /\ \A i \in DOMAIN out : out[i].title \in category_tags \cup {"highlights"}
            /\ Len(cats) = Len(heads)
            /\ \A k \in DOMAIN cats :
                   /\ cats[k].title = md[heads[k]].title
                   /\ CardsOf(cats[k]) = EntriesUnder(md, heads[k])
            /\ \A i \in DOMAIN out :
                   out[i].title = "highlights" => out[i].cards = <<>>

\* A category section with two entries and an image line
\* between them is rendered as two cards in source order.
RenderKeepsEntriesWitness ==
    /\ RenderReturned
    /\ args.md_text = <<HeaderLine("product"), EntryLine(2, 1),
                        Line("image", 0, 1, ""), EntryLine(1, 1)>>
    /\ Len(result[1]) = 1
    /\ CardsOf(result[1][1]) = <<<<2, 1>>, <<1, 1>>>>

\* The dropped section: entries under a title outside the
\* table are not rendered.
RenderDropsUnknownSection ==
    /\ RenderReturned
    /\ args.md_text = <<HeaderLine("other"), EntryLine(1, 1),
                        HeaderLine("research"), EntryLine(2, 1)>>
    /\ Len(result[1]) = 1
    /\ CardsOf(result[1][1]) = <<<<2, 1>>>>

\* C19: a line that does not match the entry pattern produces nothing: the
\* rendered section is made of its matching lines only, so the number of
\* entries it states is the number of its cards.
C19_NonMatchingProduceNothing ==
    RenderReturned =>
        \A i \in DOMAIN result[1] :
           result[1][i].title \in category_tags =>
              result[1][i].item_count = Len(result[1][i].cards)

-----------------------------------------------------------------------------
(* The cache of followed accounts *)

(* a step that is one call of get_following *)
GetFollowingStep == gpc = "idle" /\ gpc' = "returned"

CacheUntouched == UNCHANGED <<followings_cache, followings_updated>>

(* the call returned the cached list and asked no provider *)
Reused ==
    /\ provider_calls' = <<>>
    /\ following' = followings_cache
    /\ CacheUntouched

(* the call asked the configured providers; a list from one of them is     *)
(* stored with the time of the call, and without one nothing is stored     *)
Refreshed ==
    /\ twitterapi_io_key => provider_calls' # <<>> /\ provider_calls'[1].provider = "twitterapi.io"
    /\ bearer_token => provider_calls' # <<>>
    /\ IF \E i \in DOMAIN provider_calls' : provider_calls'[i].ok
       THEN /\ followings_cache' \in {<<l>> : l \in ProviderLists}
            /\ followings_updated' = <<clock>>
            /\ following' = <<Excluding(followings_cache'[1], exclude_users)>>
       ELSE /\ CacheUntouched
            /\ following' = <<<<>>>>

(* a list and its time are stored, and now - fetched_at < cache TTL *)
StoredAndFresh ==
    /\ followings_cache # <<>>
    /\ followings_updated # <<>>
    /\ clock - followings_updated[1] < cache_hours

\* C20: get_following reuses the cached list, asking no provider, exactly
\* when a list is stored and now - fetched_at < cache TTL; otherwise it
\* refreshes, storing a new list with fetched_at = now on success and leaving
\* list and timestamp as they were on failure.
C20_ReuseWhileStoredAndFresh ==
    [][GetFollowingStep => IF StoredAndFresh THEN Reused ELSE Refreshed]_vars

\* C20, with the cache condition of the code: the stored list is reused
\* exactly when it is not empty and now - fetched_at < cache TTL; otherwise
\* get_following refreshes, storing a new list with fetched_at = now on
\* success and leaving list and timestamp as they were on failure.
C20_ReuseWhileNonEmptyAndFresh ==
    [][GetFollowingStep =>
          IF StoredAndFresh /\ followings_cache[1] # <<>>
          THEN Reused ELSE Refreshed]_vars

\* C20 witness: with a provider configured, a call made after the stored
\* list was fetched, and before it expired, returned it and asked no one.
C20_Witness ==
    /\ gpc = "returned"
    /\ twitterapi_io_key
    /\ provider_calls = <<>>
    /\ followings_cache # <<>>
    /\ following = followings_cache
    /\ followings_updated # <<>>
    /\ clock > followings_updated[1]
    /\ clock - followings_updated[1] < cache_hours

-----------------------------------------------------------------------------
(* The id sets of the analysis artifact *)

\* C21: in every analysis artifact written, the urgent ids are a subset of
\* the relevant ids, whatever the model answered per batch.
C21_UrgentSubsetOfRelevant ==
    analysis # <<>> => analysis[1].urgent_ids \subseteq analysis[1].ai_tweet_ids

-----------------------------------------------------------------------------
(* Artifacts are only added *)

\* C22: no run overwrites a raw, analysis or report file that a run of an
\* earlier second wrote, the "latest" alias excepted.
C22_ArtifactsOnlyAdded ==
    \A l \in lost : l.path.kind = "latest"

-----------------------------------------------------------------------------
(* The fewest batches *)

(* the lines cut after the positions in marks: an order-preserving         *)
(* partition into non-empty contiguous batches                             *)
Partition(ls, marks) == IF ls = <<>> THEN <<>> ELSE Segments(ls, marks)

(* every batch of more than one line is within the ceiling *)
Admissible(parts, ceiling) ==
    \A b \in DOMAIN parts : Len(parts[b]) > 1 => BatchTokens(parts[b]) <= ceiling

-----------------------------------------------------------------------------
(* Loops that call a provider *)

\* C24: whatever the provider answers, the pagination of the following list
\* makes a bounded number of requests and then ends.
C24_FollowingPaginationEnds == <>(fpc # "paging")

-----------------------------------------------------------------------------
(* Excluded accounts *)

\* C27: the list get_following returns holds no user of exclude_users,
\* whether it comes from a provider or from the cache.
C27_NoExcludedUserReturned ==
    gpc = "returned" =>
        \A i \in DOMAIN following[1] : following[1][i] \notin exclude_users

-----------------------------------------------------------------------------
(* The count in a section header *)

\* C28: in the rendered report, the item count shown in the header of every
\* category section is the number of entry cards of that section, whatever
\* the summary text, lines that start with "- [" without matching the entry
\* pattern included.
C28_ItemCountIsCardCount ==
    RenderReturned =>
        LET cats == RenderedCategories(result[1])
        IN  \A k \in DOMAIN cats : Len(CardsOf(cats[k])) = cats[k].item_count

-----------------------------------------------------------------------------
(* The fallback list in the HTML report *)

(* the links of the cards of a rendered body *)
CardLinks(body) ==
    UNION {{body[s].cards[c].url : c \in DOMAIN body[s].cards} : s \in DOMAIN body}

\* C29: when a periodic report is written from the raw deduplicated list (no
\* consolidation by the model), every deduplicated entry is an entry card of
\* the rendered HTML report and of latest.html.
C29_FallbackEntriesAreCards ==
    /\ ppc = "written"
    /\ is_periodic
    /\ final_summary[1].by = "items"
    => \A f \in report_files :
          f.name # "base_name.md" =>
             \A i \in DOMAIN unique_items : unique_items[i].url \in CardLinks(f.body)

-----------------------------------------------------------------------------
(* The entry pattern of the aggregator and of the renderer *)

ExtractReturned == cpc = "returned" /\ "summary_text" \in DOMAIN args

(* the links of the entries the renderer made cards of, in order *)
RenderedEntries(html) ==
    Concat([s \in DOMAIN html |->
               [c \in DOMAIN html[s].cards |-> html[s].cards[c].url]])

\* C25: for every Structured Summary, the entries _parse_summary_items
\* returns are, in order, the entries _summary_md_to_html recognizes as entry
\* lines of that summary.
C25_SameEntriesAsRenderer ==
    ExtractReturned =>
        [i \in DOMAIN result.items[1] |-> result.items[1][i].url]
            = RenderedEntries(result.html[1])

-----------------------------------------------------------------------------
(* A job whose log polling fails *)

\* C26: every job that execute_job started reaches status 'completed' or
\* 'failed' once the engine call has returned or raised, also when the
\* log-polling task failed with an exception; no job stays 'running' after
\* execute_job has ended.
C26_StartedJobReachesTerminal ==
    \A j \in Jobs :
        (epc[j] = "engine") ~> (job_status[j] \in {"completed", "failed"})

-----------------------------------------------------------------------------
(* Overlapping scrape runs *)

\* C30: when two scrape runs that share the state file overlap, once both
\* have saved, the persisted ledger holds every id either of them marked.
C30_LedgerHoldsEveryMarkedId ==
    (\A r \in Racers : race_pc[r] = "saved")
        => \A r \in Racers : marked[r] \subseteq ledger

====
